---- MODULE Spec2Model ----
(***************************************************************************)
(* Background task orchestration of the lecture-to-slides backend:         *)
(*   - TaskManager          (backend/services/task_manager.py)             *)
(*   - ProcessingPipeline   (backend/services/processing_pipeline.py)      *)
(*   - ExportTaskManager    (backend/services/export_task_manager.py)      *)
(* Each locked section / committed transaction of the code is one atomic   *)
(* step of the model; the steps of different workers interleave freely.    *)
(***************************************************************************)
EXTENDS Integers, Sequences, FiniteSets, TLC

(***************************************************************************)
(* Bounds of the model.                                                    *)
(***************************************************************************)
MaxTasks == 2        \* tokens a TaskManager issues in one run
MaxWorkers == 1      \* max_workers of the TaskManager pool
MaxTime == 1         \* clock values 0..MaxTime (hours for the TaskManager)

MaxSessions == 1     \* lecture sessions in the store
MaxSlides == 2       \* slides one generation call returns at most
MaxJobs == 1         \* rows of table export_jobs
MaxExportSubmits == 2  \* calls of submit_export_task in one run
MaxDays == 8         \* clock values 0..MaxDays (days for the export jobs)

\* program constants
ExportPoolSize == 2  \* ThreadPoolExecutor(max_workers=2)
ExportTTLDays == 7   \* timedelta(days=7)
DefaultPoolSize == 4 \* BACKGROUND_TASK_WORKERS default of the module's TaskManager
HalfWay == 50        \* a progress percentage a caller reports (0-100)

Tokens == 1..MaxTasks
Workers == 1..MaxWorkers
SessionIds == 1..MaxSessions
JobIds == 1..MaxJobs
ExportWorkers == 1..ExportPoolSize
Formats == {"pdf", "pptx", "docx"}

(***************************************************************************)
(* Values.                                                                 *)
(***************************************************************************)
\* Python None in a string-valued field / in a numeric field.
None == "None"
NoTime == -1

\* TaskStatus
PENDING == "pending"
PROCESSING == "processing"
COMPLETED == "completed"
FAILED == "failed"

VARIABLES
    now,          \* the clock read by datetime.utcnow()
    tasks,        \* TaskManager.tasks   : token -> TaskInfo
    futures,      \* TaskManager.futures : the tokens that have an entry
    fstate,       \* the state of the Future object of each issued token
    work,         \* the work item of each issued token (func and arguments)
    queue,        \* the executor's FIFO work queue (tokens)
    workers,      \* the pool's threads: position inside _execute_task
    nextToken,    \* number of tokens issued so far + 1 (uuid4 freshness)
    dequeued,     \* history: tokens a worker took from the queue to run
    executed,     \* history: tokens whose work unit was called
    cancelOK,     \* history: tokens for which cancel_task returned True
    ret,          \* the last cancel_task / get_task_status call and its value
    sessions,     \* table lecture_sessions : id -> row
    slides,       \* table slides : set of rows
    audioFiles,   \* the temporary audio files that exist on disk
    writes,       \* history: the status writes each attempt committed
    faults,       \* whether the store and the filesystem may fail
    jobs,         \* table export_jobs : id -> row
    exportFiles,  \* the rendered export files that exist on disk
    exQueue,      \* the export executor's work queue (job ids)
    exWorkers,    \* the export pool's threads inside _process_export_job
    exSubmits,    \* number of submit_export_task calls so far
    nextPath,     \* number of files rendered so far + 1 (uuid4 file names)
    active_tasks, \* ExportTaskManager.active_tasks : token -> entry
    exTaskQueue,  \* the tokens of the work items in exQueue, same order
    exTaskOf,     \* the token whose work item each export thread runs
    exRet,        \* the last export get_task_status / download_export reply
    reader,       \* a caller holding a TaskInfo it got from get_task_status
    accepting,    \* FALSE once TaskManager.shutdown has run
    users,        \* table users : email -> row
    schemaDrift,  \* whether the users table lacks a column of the model
    guest,        \* the create_guest_user call in progress
    guestCalls    \* number of create_guest_user calls so far

tmVars == <<tasks, futures, fstate, work, queue, workers, nextToken,
            dequeued, executed, cancelOK, ret>>

plVars == <<sessions, slides, audioFiles, writes>>

exVars == <<jobs, exportFiles, exQueue, exWorkers, exSubmits, nextPath>>

tkVars == <<active_tasks, exTaskQueue, exTaskOf, exRet>>

rdVars == <<reader, accepting>>

guVars == <<users, schemaDrift, guest, guestCalls>>

moreVars == <<tkVars, rdVars, guVars>>

vars == <<now, tmVars, plVars, faults, exVars, moreVars>>

(***************************************************************************)
(* TaskInfo and the registry.                                              *)
(***************************************************************************)
TaskInfo(tid) ==
    [task_id |-> tid, status |-> PENDING, progress |-> NoTime, error |-> None,
     result |-> None, started_at |-> NoTime, completed_at |-> NoTime]

\* what a pool thread holds: pc is its position in _execute_task, ppc its
\* position in process_lecture, tr / gen / err the locals of process_lecture
NoTranscription == [text |-> None, duration |-> NoTime]

IdleWorker == [pc |-> "idle", tid |-> 0, out |-> None, ppc |-> None,
               tr |-> NoTranscription, gen |-> <<>>, err |-> None]

Terminal == {COMPLETED, FAILED}

\* concurrent.futures.Future.cancel(): succeeds unless running or finished.
FutureCancel(fs) == fs \in {"PENDING", "CANCELLED"}

\* the record written by the wrapper's first locked section
ProcessingRecord(rec) ==
    [rec EXCEPT !.status = PROCESSING, !.started_at = now]

\* a wrapper that stores the result but leaves the status untouched
CompletedRecordKeepsStatus(rec, result) ==
    [rec EXCEPT !.result = result, !.progress = 100, !.completed_at = now]

\* the record written by the wrapper's locked section after a normal return
CompletedRecord(rec, result) ==
    [rec EXCEPT !.status = COMPLETED, !.result = result, !.progress = 100,
                !.completed_at = now]

\* an except branch that forgets the completion timestamp
FailedRecordNoTimestamp(rec, msg) ==
    [rec EXCEPT !.status = FAILED, !.error = msg]

\* the record written by the wrapper's locked section in the except branch
FailedRecord(rec, msg) ==
    [rec EXCEPT !.status = FAILED, !.error = msg, !.completed_at = now]

\* a cancel that forgets the completion timestamp
CancelledRecordNoTimestamp(rec) ==
    [rec EXCEPT !.status = FAILED, !.error = "Task cancelled"]

\* the record written by a successful cancel_task
CancelledRecord(rec) ==
    [rec EXCEPT !.status = FAILED, !.error = "Task cancelled",
                !.completed_at = now]

(***************************************************************************)
(* TaskManager operations.                                                 *)
(***************************************************************************)
\* a submit_task that queues the work item without creating the record
submit_task_without_record(func, session, path) ==
    /\ nextToken <= MaxTasks
    /\ LET tid == nextToken IN
        /\ tasks' = tasks
        /\ fstate' = [fstate EXCEPT ![tid] = "PENDING"]
        /\ work' = [work EXCEPT ![tid] =
                        [func |-> func, session |-> session, path |-> path]]
        /\ queue' = Append(queue, tid)
        /\ futures' = futures \cup {tid}
        /\ nextToken' = nextToken + 1
    /\ UNCHANGED <<workers, dequeued, executed, cancelOK, ret>>

\* submit_task(func, *args): one locked section creating the record,
\* handing the work item to the executor and storing the future.
submit_task(func, session, path) ==
    /\ nextToken <= MaxTasks
    /\ LET tid == nextToken IN
        /\ tasks' = tasks @@ (tid :> TaskInfo(tid))
        /\ fstate' = [fstate EXCEPT ![tid] = "PENDING"]
        /\ work' = [work EXCEPT ![tid] =
                        [func |-> func, session |-> session, path |-> path]]
        /\ queue' = Append(queue, tid)
        /\ futures' = futures \cup {tid}
        /\ nextToken' = nextToken + 1
    /\ UNCHANGED <<workers, dequeued, executed, cancelOK, ret>>

\* a lookup by self.tasks[task_id], which raises KeyError on a missing key
get_task_status_indexing(tid) ==
    /\ ret' = [op |-> "get_task_status", tid |-> tid,
               val |-> IF tid \in DOMAIN tasks THEN "TaskInfo" ELSE "KeyError"]
    /\ UNCHANGED <<tasks, futures, fstate, work, queue, workers, nextToken,
                   dequeued, executed, cancelOK>>

\* get_task_status(task_id): self.tasks.get(task_id) under the lock.
\* The value is a reference to the TaskInfo object, or None.
get_task_status(tid) ==
    /\ ret' = [op |-> "get_task_status", tid |-> tid,
               val |-> IF tid \in DOMAIN tasks THEN "TaskInfo" ELSE None]
    /\ UNCHANGED <<tasks, futures, fstate, work, queue, workers, nextToken,
                   dequeued, executed, cancelOK>>

\* update_task_progress(task_id, progress)
update_task_progress(tid, progress) ==
    /\ tasks' = IF tid \in DOMAIN tasks
                   THEN [tasks EXCEPT ![tid].progress = progress]
                   ELSE tasks
    /\ UNCHANGED <<futures, fstate, work, queue, workers, nextToken,
                   dequeued, executed, cancelOK, ret>>

\* a cancel_task that does not look at what future.cancel() returns
cancel_task_unchecked(tid) ==
    LET ok == tid \in futures IN
    /\ IF ok
          THEN /\ fstate' = [fstate EXCEPT ![tid] = "CANCELLED"]
               /\ tasks' = [tasks EXCEPT ![tid] = CancelledRecord(tasks[tid])]
               /\ cancelOK' = cancelOK \cup {tid}
          ELSE UNCHANGED <<fstate, tasks, cancelOK>>
    /\ ret' = [op |-> "cancel_task", tid |-> tid,
               val |-> IF ok THEN "True" ELSE "False"]
    /\ UNCHANGED <<futures, work, queue, workers, nextToken, dequeued,
                   executed>>

\* cancel_task(task_id): under the lock, future.cancel() decides.
cancel_task(tid) ==
    LET ok == tid \in futures /\ FutureCancel(fstate[tid]) IN
    /\ IF ok
          THEN /\ fstate' = [fstate EXCEPT ![tid] = "CANCELLED"]
               /\ tasks' = [tasks EXCEPT ![tid] = CancelledRecord(tasks[tid])]
               /\ cancelOK' = cancelOK \cup {tid}
          ELSE UNCHANGED <<fstate, tasks, cancelOK>>
    /\ ret' = [op |-> "cancel_task", tid |-> tid,
               val |-> IF ok THEN "True" ELSE "False"]
    /\ UNCHANGED <<futures, work, queue, workers, nextToken, dequeued,
                   executed>>

\* a cleanup that ignores the age of a terminal record
TasksToRemoveAnyAge(max_age_hours) ==
    {tid \in DOMAIN tasks : tasks[tid].status \in {COMPLETED, FAILED}}

\* the tokens cleanup_completed_tasks(max_age_hours) removes
TasksToRemove(max_age_hours) ==
    {tid \in DOMAIN tasks :
        /\ tasks[tid].status \in {COMPLETED, FAILED}
        /\ tasks[tid].completed_at # NoTime
        /\ tasks[tid].completed_at < now - max_age_hours}

\* cleanup_completed_tasks(max_age_hours)
cleanup_completed_tasks(max_age_hours) ==
    LET gone == TasksToRemove(max_age_hours) IN
    /\ gone # {}
    /\ tasks' = [tid \in DOMAIN tasks \ gone |-> tasks[tid]]
    /\ futures' = futures \ gone
    /\ UNCHANGED <<fstate, work, queue, workers, nextToken, dequeued,
                   executed, cancelOK, ret>>

(***************************************************************************)
(* The pool's worker threads running _execute_task.                        *)
(***************************************************************************)
\* A free thread takes the next work item; the future becomes RUNNING.
WorkerTake(w) ==
    /\ workers[w].pc = "idle"
    /\ queue # <<>>
    /\ fstate[Head(queue)] = "PENDING"
    /\ queue' = Tail(queue)
    /\ fstate' = [fstate EXCEPT ![Head(queue)] = "RUNNING"]
    /\ workers' = [workers EXCEPT ![w] =
                      [IdleWorker EXCEPT !.pc = "dequeued", !.tid = Head(queue)]]
    /\ dequeued' = dequeued \cup {Head(queue)}
    /\ UNCHANGED <<tasks, futures, work, nextToken, executed, cancelOK,
                   ret>>

\* A free thread takes a work item whose future was cancelled and drops it.
WorkerDiscard(w) ==
    /\ workers[w].pc = "idle"
    /\ queue # <<>>
    /\ fstate[Head(queue)] = "CANCELLED"
    /\ queue' = Tail(queue)
    /\ UNCHANGED <<tasks, futures, fstate, work, workers, nextToken, dequeued,
                   executed, cancelOK, ret>>

\* _execute_task, first locked section: status PROCESSING, started_at.
WorkerBegin(w) ==
    /\ workers[w].pc = "dequeued"
    /\ LET tid == workers[w].tid IN
        tasks' = IF tid \in DOMAIN tasks
                    THEN [tasks EXCEPT ![tid] = ProcessingRecord(tasks[tid])]
                    ELSE tasks
    /\ workers' = [workers EXCEPT ![w].pc = "running",
                                  ![w].ppc = work[workers[w].tid].func]
    /\ UNCHANGED <<futures, fstate, work, queue, nextToken, dequeued,
                   executed, cancelOK, ret>>

\* result = func(*args, **kwargs) for an opaque work unit: returns or raises.
WorkerRunUnit(w) ==
    /\ workers[w].pc = "running"
    /\ workers[w].ppc = "unit"
    /\ \E o \in {"returned", "raised"} :
        workers' = [workers EXCEPT ![w].pc = o,
                       ![w].out = IF o = "returned" THEN "value" ELSE "unit error"]
    /\ executed' = executed \cup {workers[w].tid}
    /\ UNCHANGED <<tasks, futures, fstate, work, queue, nextToken, dequeued,
                   cancelOK, ret>>

\* _execute_task, locked section after the normal return; the future gets
\* the result and the thread is free again.
WorkerComplete(w) ==
    /\ workers[w].pc = "returned"
    /\ LET tid == workers[w].tid IN
        /\ tasks' = IF tid \in DOMAIN tasks
                       THEN [tasks EXCEPT ![tid] =
                                CompletedRecord(tasks[tid], workers[w].out)]
                       ELSE tasks
        /\ fstate' = [fstate EXCEPT ![tid] = "FINISHED"]
    /\ workers' = [workers EXCEPT ![w] = IdleWorker]
    /\ UNCHANGED <<futures, work, queue, nextToken, dequeued, executed,
                   cancelOK, ret>>

\* an except branch after which the pool thread is lost
WorkerFailThreadDies(w) ==
    /\ workers[w].pc = "raised"
    /\ LET tid == workers[w].tid IN
        /\ tasks' = IF tid \in DOMAIN tasks
                       THEN [tasks EXCEPT ![tid] =
                                FailedRecord(tasks[tid], workers[w].out)]
                       ELSE tasks
        /\ fstate' = [fstate EXCEPT ![tid] = "FAILED"]
    /\ workers' = [workers EXCEPT ![w].pc = "dead"]
    /\ UNCHANGED <<futures, work, queue, nextToken, dequeued, executed,
                   cancelOK, ret>>

\* _execute_task, except branch: status FAILED, error = str(e), re-raise
\* into the future; the thread is free again.
WorkerFail(w) ==
    /\ workers[w].pc = "raised"
    /\ LET tid == workers[w].tid IN
        /\ tasks' = IF tid \in DOMAIN tasks
                       THEN [tasks EXCEPT ![tid] =
                                FailedRecord(tasks[tid], workers[w].out)]
                       ELSE tasks
        /\ fstate' = [fstate EXCEPT ![tid] = "FAILED"]
    /\ workers' = [workers EXCEPT ![w] = IdleWorker]
    /\ UNCHANGED <<futures, work, queue, nextToken, dequeued, executed,
                   cancelOK, ret>>

\* datetime.utcnow() advances.
Tick ==
    /\ now < MaxTime
    /\ now' = now + 1

(***************************************************************************)
(* ProcessingPipeline: the store operations.                               *)
(***************************************************************************)
\* the outcomes of a store commit / of os.remove
DbOutcomes == IF faults THEN BOOLEAN ELSE {TRUE}

\* the row main.py creates before it submits the processing task
NewSession ==
    [processing_status |-> "pending", transcript |-> None, audio_duration |-> NoTime]

\* _update_session_status: writes the row if it exists and the commit
\* succeeds; a missing row or a failing commit is logged and swallowed.
UpdateSessionStatus(s, status, dbOk) ==
    IF s \in DOMAIN sessions /\ dbOk
        THEN [sessions EXCEPT ![s].processing_status = status]
        ELSE sessions

\* the status-write log of attempt tid after such a call
LogWrite(tid, s, status, dbOk) ==
    IF s \in DOMAIN sessions /\ dbOk
        THEN [writes EXCEPT ![tid] = Append(@, status)]
        ELSE writes

\* a pipeline that keeps the transcript in memory until the end
UpdateSessionTranscriptDeferred(s, text, duration, dbOk) == sessions

\* _update_session_transcript: audio_duration = int(duration); durations
\* are kept in tenths of a second
UpdateSessionTranscript(s, text, duration, dbOk) ==
    IF s \in DOMAIN sessions /\ dbOk
        THEN [sessions EXCEPT ![s].transcript = text,
                              ![s].audio_duration = duration \div 10]
        ELSE sessions

\* the rows of one session, as a reader of the store sees them
SlidesOf(s) == {r \in slides : r.session_id = s}

\* the rows _save_slides_to_database adds: enumerate(slides), numbered i + 1
NewSlideRows(s, gen) ==
    {[session_id |-> s, slide_number |-> (i - 1) + 1, content |-> gen[i]] :
        i \in 1..Len(gen)}

\* a persistence stage that inserts without deleting the old rows
SaveSlidesKeepingOld(s, gen) == slides \cup NewSlideRows(s, gen)

\* a persistence stage that overwrites row by row, by slide number
SaveSlidesOverwritingByNumber(s, gen) ==
    {r \in slides : r.session_id # s \/ r.slide_number > Len(gen)}
        \cup NewSlideRows(s, gen)

\* _save_slides_to_database, committed: delete the session's rows, insert
\* the new ones
SaveSlides(s, gen) ==
    {r \in slides : r.session_id # s} \cup NewSlideRows(s, gen)

\* a persistence stage whose delete is committed before the inserts fail
SaveSlidesDeleteCommitted(s, gen) == {r \in slides : r.session_id # s}

\* _save_slides_to_database, raised: db.rollback() undoes the delete and
\* the inserts made so far
SaveSlidesRolledBack(s, gen) == slides

\* _cleanup_audio_file: removes the file if it exists; a failing os.remove
\* is logged and swallowed
CleanupAudioFile(path, fsOk) ==
    IF path \in audioFiles /\ fsOk THEN audioFiles \ {path} ELSE audioFiles

\* GET /lectures/{id}/status: what a status poller is told
get_processing_status(s) ==
    [status |-> sessions[s].processing_status,
     progress |-> None,
     error |-> IF sessions[s].processing_status # "failed"
                  THEN None ELSE "Processing failed"]

(***************************************************************************)
(* ProcessingPipeline.process_lecture, run by pool thread w.               *)
(***************************************************************************)
AtStage(w, stage) ==
    /\ workers[w].pc = "running"
    /\ workers[w].ppc = stage

SessionOf(w) == work[workers[w].tid].session
PathOf(w) == work[workers[w].tid].path

\* Step 1: _update_session_status(session_id, "processing")
PLSetProcessing(w) ==
    /\ AtStage(w, "process_lecture")
    /\ \E dbOk \in DbOutcomes :
        /\ sessions' = UpdateSessionStatus(SessionOf(w), "processing", dbOk)
        /\ writes' = LogWrite(workers[w].tid, SessionOf(w), "processing", dbOk)
    /\ workers' = [workers EXCEPT ![w].ppc = "transcribe"]
    /\ executed' = executed \cup {workers[w].tid}
    /\ UNCHANGED <<tasks, futures, fstate, work, queue, nextToken, dequeued,
                   cancelOK, ret, slides, audioFiles>>

\* Step 2: transcribe_audio(audio_file_path) returns or raises
PLTranscribe(w) ==
    /\ AtStage(w, "transcribe")
    /\ \/ /\ PathOf(w) \in audioFiles
          /\ workers' = [workers EXCEPT ![w].ppc = "save_transcript",
                            ![w].tr = [text |-> "transcript " \o ToString(workers[w].tid),
                                       duration |-> 125]]
       \/ workers' = [workers EXCEPT ![w].ppc = "set_failed",
                         ![w].err = IF PathOf(w) \in audioFiles
                                       THEN "Transcription failed"
                                       ELSE "Audio file not found"]
    /\ UNCHANGED <<tasks, futures, fstate, work, queue, nextToken, dequeued,
                   executed, cancelOK, ret, plVars>>

\* _update_session_transcript(session_id, text, duration)
PLSaveTranscript(w) ==
    /\ AtStage(w, "save_transcript")
    /\ \E dbOk \in DbOutcomes :
        sessions' = UpdateSessionTranscript(SessionOf(w), workers[w].tr.text,
                                            workers[w].tr.duration, dbOk)
    /\ workers' = [workers EXCEPT ![w].ppc = "generate"]
    /\ UNCHANGED <<tasks, futures, fstate, work, queue, nextToken, dequeued,
                   executed, cancelOK, ret, slides, audioFiles, writes>>

\* Step 3: generate_slides(text) returns 1..MaxSlides slides or raises
PLGenerate(w) ==
    /\ AtStage(w, "generate")
    /\ \/ \E n \in 1..MaxSlides :
            workers' = [workers EXCEPT ![w].ppc = "save_slides",
                ![w].gen = [i \in 1..n |-> [attempt |-> workers[w].tid, idx |-> i]]]
       \/ workers' = [workers EXCEPT ![w].ppc = "set_failed",
                         ![w].err = "Transcript is too short"]
    /\ UNCHANGED <<tasks, futures, fstate, work, queue, nextToken, dequeued,
                   executed, cancelOK, ret, plVars>>

\* Step 4: _save_slides_to_database commits, or raises after the rollback
PLSaveSlides(w) ==
    /\ AtStage(w, "save_slides")
    /\ \/ /\ slides' = SaveSlides(SessionOf(w), workers[w].gen)
          /\ workers' = [workers EXCEPT ![w].ppc = "set_completed"]
       \/ /\ slides' = SaveSlidesRolledBack(SessionOf(w), workers[w].gen)
          /\ workers' = [workers EXCEPT ![w].ppc = "set_failed",
                            ![w].err = "Failed to save slides"]
    /\ UNCHANGED <<tasks, futures, fstate, work, queue, nextToken, dequeued,
                   executed, cancelOK, ret, sessions, audioFiles, writes>>

\* Step 5: _update_session_status(session_id, "completed")
PLSetCompleted(w) ==
    /\ AtStage(w, "set_completed")
    /\ \E dbOk \in DbOutcomes :
        /\ sessions' = UpdateSessionStatus(SessionOf(w), "completed", dbOk)
        /\ writes' = LogWrite(workers[w].tid, SessionOf(w), "completed", dbOk)
    /\ workers' = [workers EXCEPT ![w].ppc = "cleanup"]
    /\ UNCHANGED <<tasks, futures, fstate, work, queue, nextToken, dequeued,
                   executed, cancelOK, ret, slides, audioFiles>>

\* _cleanup_audio_file, then process_lecture returns its result
PLCleanup(w) ==
    /\ AtStage(w, "cleanup")
    /\ \E fsOk \in DbOutcomes :
        audioFiles' = CleanupAudioFile(PathOf(w), fsOk)
    /\ workers' = [workers EXCEPT ![w].pc = "returned", ![w].ppc = "done",
                      ![w].out = "result"]
    /\ UNCHANGED <<tasks, futures, fstate, work, queue, nextToken, dequeued,
                   executed, cancelOK, ret, sessions, slides, writes>>

\* an except branch that leaves the status as it is
PLSetFailedSkipped(w) ==
    /\ AtStage(w, "set_failed")
    /\ workers' = [workers EXCEPT ![w].ppc = "cleanup_failed"]
    /\ UNCHANGED <<tasks, futures, fstate, work, queue, nextToken, dequeued,
                   executed, cancelOK, ret, plVars>>

\* except branch: _update_session_status(session_id, "failed")
PLSetFailed(w) ==
    /\ AtStage(w, "set_failed")
    /\ \E dbOk \in DbOutcomes :
        /\ sessions' = UpdateSessionStatus(SessionOf(w), "failed", dbOk)
        /\ writes' = LogWrite(workers[w].tid, SessionOf(w), "failed", dbOk)
    /\ workers' = [workers EXCEPT ![w].ppc = "cleanup_failed"]
    /\ UNCHANGED <<tasks, futures, fstate, work, queue, nextToken, dequeued,
                   executed, cancelOK, ret, slides, audioFiles>>

\* an except branch that re-raises without removing the audio file
PLCleanupFailedSkipped(w) ==
    /\ AtStage(w, "cleanup_failed")
    /\ workers' = [workers EXCEPT ![w].pc = "raised", ![w].ppc = "done",
                      ![w].out = "Processing failed: " \o workers[w].err]
    /\ UNCHANGED <<tasks, futures, fstate, work, queue, nextToken, dequeued,
                   executed, cancelOK, ret, plVars>>

\* an except branch that cleans up and then returns instead of re-raising
PLCleanupFailedSwallowing(w) ==
    /\ AtStage(w, "cleanup_failed")
    /\ \E fsOk \in DbOutcomes :
        audioFiles' = CleanupAudioFile(PathOf(w), fsOk)
    /\ workers' = [workers EXCEPT ![w].pc = "returned", ![w].ppc = "done",
                      ![w].out = "result"]
    /\ UNCHANGED <<tasks, futures, fstate, work, queue, nextToken, dequeued,
                   executed, cancelOK, ret, sessions, slides, writes>>

\* except branch: _cleanup_audio_file, then
\* raise Exception(f"Processing failed: {str(e)}")
PLCleanupFailed(w) ==
    /\ AtStage(w, "cleanup_failed")
    /\ \E fsOk \in DbOutcomes :
        audioFiles' = CleanupAudioFile(PathOf(w), fsOk)
    /\ workers' = [workers EXCEPT ![w].pc = "raised", ![w].ppc = "done",
                      ![w].out = "Processing failed: " \o workers[w].err]
    /\ UNCHANGED <<tasks, futures, fstate, work, queue, nextToken, dequeued,
                   executed, cancelOK, ret, sessions, slides, writes>>

\* submit_processing_task(session_id, audio_file_path)
submit_processing_task(s, path) == submit_task("process_lecture", s, path)

\* an attempt for session s is queued or running
InFlight(s) ==
    \E tid \in 1..(nextToken - 1) :
        work[tid].session = s /\ fstate[tid] \in {"PENDING", "RUNNING"}


(***************************************************************************)
(* ExportTaskManager: the job rows.                                        *)
(***************************************************************************)
IdleExportWorker == [pc |-> "idle", job |-> 0, path |-> None, err |-> None]

\* the row created for an export request, status "pending"
NewExportJob(s, fmt) ==
    [session_id |-> s, export_format |-> fmt, status |-> "pending",
     file_path |-> None, download_url |-> None, error_message |-> None,
     expires_at |-> NoTime]

\* a dispatch whose else branch renders a PDF
ExportPlanDowngrading(row) ==
    IF row.session_id \notin DOMAIN sessions THEN "no_session"
    ELSE IF SlidesOf(row.session_id) = {} THEN "no_slides"
    ELSE IF row.export_format = "pptx" THEN "pptx"
    ELSE "pdf"

\* what _process_export_job does for a row once it is "processing": the
\* session check, the slides check, then the dispatch on export_format
ExportPlan(row) ==
    IF row.session_id \notin DOMAIN sessions THEN "no_session"
    ELSE IF SlidesOf(row.session_id) = {} THEN "no_slides"
    ELSE IF row.export_format = "pdf" THEN "pdf"
    ELSE IF row.export_format = "pptx" THEN "pptx"
    ELSE "unsupported"

\* str(e) of the exception the plan raises
ExportError(plan, row) ==
    IF plan = "no_session"
        THEN "Session " \o ToString(row.session_id) \o " not found"
    ELSE IF plan = "no_slides"
        THEN "No slides found for session " \o ToString(row.session_id)
    ELSE IF plan = "unsupported"
        THEN "Unsupported export format: " \o row.export_format
    ELSE "render error"

\* the file generate_pdf / generate_pptx writes: a fresh name, the
\* renderer's extension
RenderedPath(n, renderer) == "lecture_slides_" \o ToString(n) \o "." \o renderer

\* a success branch that forgets expires_at
CompletedJobNoExpiry(row, path, j) ==
    [row EXCEPT !.status = "completed", !.file_path = path,
                !.download_url = "/exports/download/" \o ToString(j)]

\* the row committed on success
CompletedJob(row, path, j) ==
    [row EXCEPT !.status = "completed", !.file_path = path,
                !.download_url = "/exports/download/" \o ToString(j),
                !.expires_at = now + ExportTTLDays]

\* the row committed by the except branch
FailedJob(row, msg) ==
    [row EXCEPT !.status = "failed", !.error_message = msg]

\* a reaper that keeps download_url
ExpiredJobKeepingUrl(row) ==
    [row EXCEPT !.status = "expired", !.file_path = None]

\* a reaper that clears the pointers but leaves the job "completed"
ExpiredJobKeepingStatus(row) ==
    [row EXCEPT !.file_path = None, !.download_url = None]

\* the row cleanup_expired_files commits for an expired job
ExpiredJob(row) ==
    [row EXCEPT !.status = "expired", !.file_path = None, !.download_url = None]

\* the rows cleanup_expired_files selects
ExpiredJobs ==
    {j \in DOMAIN jobs :
        /\ jobs[j].status = "completed"
        /\ jobs[j].expires_at # NoTime
        /\ jobs[j].expires_at < now}

(***************************************************************************)
(* ExportTaskManager operations.                                           *)
(***************************************************************************)
\* the export request handler (or a test) inserts the job row
CreateExportJob(s, fmt) ==
    /\ Cardinality(DOMAIN jobs) < MaxJobs
    /\ jobs' = jobs @@ ((Cardinality(DOMAIN jobs) + 1) :> NewExportJob(s, fmt))
    /\ UNCHANGED <<exportFiles, exQueue, exWorkers, exSubmits, nextPath>>

\* submit_export_task(export_job_id)
submit_export_task(j) ==
    /\ exSubmits < MaxExportSubmits
    /\ exQueue' = Append(exQueue, j)
    /\ exSubmits' = exSubmits + 1
    /\ UNCHANGED <<jobs, exportFiles, exWorkers, nextPath>>

\* _process_export_job, lines 59-70: load the job; return if it is
\* missing, else commit status "processing"
ExStart(w) ==
    /\ exWorkers[w].pc = "idle"
    /\ exQueue # <<>>
    /\ exQueue' = Tail(exQueue)
    /\ LET j == Head(exQueue) IN
        IF j \in DOMAIN jobs
            THEN /\ jobs' = [jobs EXCEPT ![j].status = "processing"]
                 /\ exWorkers' = [exWorkers EXCEPT ![w] =
                        [IdleExportWorker EXCEPT !.pc = "processing", !.job = j]]
            ELSE UNCHANGED <<jobs, exWorkers>>
    /\ UNCHANGED <<exportFiles, exSubmits, nextPath>>

\* lines 74-95: load session and slides, render for the job's format
ExRender(w) ==
    /\ exWorkers[w].pc = "processing"
    /\ LET row == jobs[exWorkers[w].job]
           plan == ExportPlan(row)
       IN  \/ /\ plan \in {"pdf", "pptx"}
              /\ exWorkers' = [exWorkers EXCEPT ![w].pc = "rendered",
                                  ![w].path = RenderedPath(nextPath, plan)]
              /\ exportFiles' = exportFiles \cup {RenderedPath(nextPath, plan)}
              /\ nextPath' = nextPath + 1
           \/ /\ exWorkers' = [exWorkers EXCEPT ![w].pc = "failing",
                                  ![w].err = ExportError(plan, row)]
              /\ UNCHANGED <<exportFiles, nextPath>>
    /\ UNCHANGED <<jobs, exQueue, exSubmits>>

\* lines 97-105: commit the success
ExCommitCompleted(w) ==
    /\ exWorkers[w].pc = "rendered"
    /\ jobs' = [jobs EXCEPT ![exWorkers[w].job] =
                   CompletedJob(@, exWorkers[w].path, exWorkers[w].job)]
    /\ exWorkers' = [exWorkers EXCEPT ![w] = IdleExportWorker]
    /\ UNCHANGED <<exportFiles, exQueue, exSubmits, nextPath>>

\* lines 107-114: commit the failure
ExCommitFailed(w) ==
    /\ exWorkers[w].pc = "failing"
    /\ jobs' = [jobs EXCEPT ![exWorkers[w].job] = FailedJob(@, exWorkers[w].err)]
    /\ exWorkers' = [exWorkers EXCEPT ![w] = IdleExportWorker]
    /\ UNCHANGED <<exportFiles, exQueue, exSubmits, nextPath>>

\* cleanup_expired_files: remove the files of the expired jobs that still
\* exist, mark the jobs expired, commit
cleanup_expired_files ==
    /\ jobs' = [j \in DOMAIN jobs |->
                   IF j \in ExpiredJobs THEN ExpiredJob(jobs[j]) ELSE jobs[j]]
    /\ \E fsOk \in DbOutcomes :
        exportFiles' = IF fsOk
                          THEN exportFiles \ {jobs[j].file_path : j \in ExpiredJobs}
                          ELSE exportFiles
    /\ UNCHANGED <<exQueue, exWorkers, exSubmits, nextPath>>

\* somebody else removes a rendered file from the export directory
RemoveFileExternally(p) ==
    /\ p \in exportFiles
    /\ exportFiles' = exportFiles \ {p}
    /\ UNCHANGED <<jobs, exQueue, exWorkers, exSubmits, nextPath>>

\* a caller that holds no record
IdleReader == [pc |-> "idle", tid |-> 0, status |-> None, result |-> None,
               error |-> None, progress |-> NoTime, completed_at |-> NoTime]

\* no create_guest_user call in progress
IdleGuestCall == [pc |-> "idle", email |-> None, err |-> None, tries |-> 0,
                  heals |-> 0, out |-> None]

\* download_export (main.py): what the request for job j is answered with
DownloadOutcome(j) ==
    IF j \notin DOMAIN jobs \/ jobs[j].status # "completed"
        THEN "404 Export not found or not ready"
    ELSE IF jobs[j].file_path = None \/ jobs[j].file_path \notin exportFiles
        THEN "410 Export file no longer available"
    ELSE IF jobs[j].expires_at # NoTime /\ jobs[j].expires_at < now
        THEN "410 Export file has expired"
    ELSE IF jobs[j].session_id \notin DOMAIN sessions
        THEN "500"
    ELSE jobs[j].file_path

\* download_export(export_id): reads only, the reply is kept in exRet
download_export(j) ==
    /\ exRet' = [op |-> "download_export", arg |-> j, val |-> DownloadOutcome(j)]
    /\ UNCHANGED <<jobs, exportFiles, exQueue, exWorkers, exSubmits, nextPath,
                   active_tasks, exTaskQueue, exTaskOf>>

(***************************************************************************)
(* Initial values of the three components.                                 *)
(***************************************************************************)

InitTaskManager ==
    /\ tasks = <<>>
    /\ futures = {}
    /\ fstate = [tid \in Tokens |-> "NONE"]
    /\ work = [tid \in Tokens |-> [func |-> None, session |-> 0, path |-> 0]]
    /\ queue = <<>>
    /\ workers = [w \in Workers |-> IdleWorker]
    /\ nextToken = 1
    /\ dequeued = {}
    /\ executed = {}
    /\ cancelOK = {}
    /\ ret = [op |-> None, tid |-> 0, val |-> None]
    /\ writes = [tid \in Tokens |-> <<>>]
    /\ reader = IdleReader
    /\ accepting = TRUE

InitExportManager ==
    /\ jobs = <<>>
    /\ exportFiles = {}
    /\ exQueue = <<>>
    /\ exWorkers = [w \in ExportWorkers |-> IdleExportWorker]
    /\ exSubmits = 0
    /\ nextPath = 1
    /\ active_tasks = <<>>
    /\ exTaskQueue = <<>>
    /\ exTaskOf = [w \in ExportWorkers |-> 0]
    /\ exRet = [op |-> None, arg |-> 0, val |-> None]

\* no account request has been made
InitAccounts ==
    /\ users = <<>>
    /\ schemaDrift = FALSE
    /\ guest = IdleGuestCall
    /\ guestCalls = 0

(***************************************************************************)
(* The TaskManager with opaque work units.                                 *)
(***************************************************************************)
InitTM ==
    /\ now = 0
    /\ InitTaskManager
    /\ InitExportManager
    /\ InitAccounts
    /\ sessions = <<>>
    /\ slides = {}
    /\ audioFiles = {}
    /\ faults = FALSE

SubmitUnit == submit_task("unit", 0, 0) /\ UNCHANGED <<now, plVars, faults, moreVars, exVars>>
GetStatus == \E tid \in 0..MaxTasks : get_task_status(tid) /\ UNCHANGED <<now, plVars, faults, moreVars, exVars>>
Cancel == \E tid \in 0..MaxTasks : cancel_task(tid) /\ UNCHANGED <<now, plVars, faults, moreVars, exVars>>
Cleanup == \E age \in {0, 1} : cleanup_completed_tasks(age) /\ UNCHANGED <<now, plVars, faults, moreVars, exVars>>
Take == \E w \in Workers : WorkerTake(w) /\ UNCHANGED <<now, plVars, faults, moreVars, exVars>>
Discard == \E w \in Workers : WorkerDiscard(w) /\ UNCHANGED <<now, plVars, faults, moreVars, exVars>>
Begin == \E w \in Workers : WorkerBegin(w) /\ UNCHANGED <<now, plVars, faults, moreVars, exVars>>
RunUnit == \E w \in Workers : WorkerRunUnit(w) /\ UNCHANGED <<now, plVars, faults, moreVars, exVars>>
Complete == \E w \in Workers : WorkerComplete(w) /\ UNCHANGED <<now, plVars, faults, moreVars, exVars>>
Fail == \E w \in Workers : WorkerFail(w) /\ UNCHANGED <<now, plVars, faults, moreVars, exVars>>
ClockTM == Tick /\ UNCHANGED <<tmVars, plVars, faults, moreVars, exVars>>

\* one step of pool thread w
WorkerStepTM(w) ==
    /\ \/ WorkerTake(w) \/ WorkerDiscard(w) \/ WorkerBegin(w)
       \/ WorkerRunUnit(w) \/ WorkerComplete(w) \/ WorkerFail(w)
    /\ UNCHANGED <<now, plVars, faults, moreVars, exVars>>

NextTM ==
    \/ SubmitUnit
    \/ GetStatus
    \/ Cancel
    \/ Cleanup
    \/ Take
    \/ Discard
    \/ Begin
    \/ RunUnit
    \/ Complete
    \/ Fail
    \/ ClockTM

SpecTM == InitTM /\ [][NextTM]_vars

\* The pool's threads are operating-system threads: a thread that can take a
\* step eventually takes it, and a work unit returns or raises.
\* get_task_status only reads; it is left out of the liveness check
NextTMCore ==
    \/ SubmitUnit
    \/ Cancel
    \/ Cleanup
    \/ Take
    \/ Discard
    \/ Begin
    \/ RunUnit
    \/ Complete
    \/ Fail
    \/ ClockTM

FairSpecTM == InitTM /\ [][NextTMCore]_vars /\ \A w \in Workers : WF_vars(WorkerStepTM(w))

(***************************************************************************)
(* The TaskManager with callers that also annotate progress.               *)
(***************************************************************************)
ProgressValues == {HalfWay}

UpdateProgress ==
    /\ \E tid \in 0..MaxTasks : \E p \in ProgressValues :
        update_task_progress(tid, p)
    /\ UNCHANGED <<now, plVars, faults, moreVars, exVars>>

NextTMProgress ==
    \/ NextTM
    \/ UpdateProgress

SpecTMProgress == InitTM /\ [][NextTMProgress]_vars

(***************************************************************************)
(* The pipeline on the TaskManager.  Callers follow the pipeline's         *)
(* concurrency model: the sessions exist, each upload gets its own         *)
(* temporary file, and a session is (re)submitted only while no attempt    *)
(* for it is queued or running.                                            *)
(***************************************************************************)
InitPipeline ==
    /\ now = 0
    /\ InitTaskManager
    /\ InitExportManager
    /\ InitAccounts
    /\ sessions = [s \in SessionIds |-> NewSession]
    /\ slides = {}
    /\ audioFiles = {}
    /\ faults = FALSE

\* the upload handler writes the temporary file (or the file is already
\* gone) and submits the task
SubmitProcessing ==
    /\ \E s \in SessionIds :
        /\ ~InFlight(s)
        /\ submit_processing_task(s, nextToken)
    /\ \E present \in BOOLEAN :
        audioFiles' = IF present THEN audioFiles \cup {nextToken} ELSE audioFiles
    /\ UNCHANGED <<now, sessions, slides, writes, faults, moreVars, exVars>>

PLStep(w) ==
    \/ PLSetProcessing(w) \/ PLTranscribe(w) \/ PLSaveTranscript(w)
    \/ PLGenerate(w) \/ PLSaveSlides(w) \/ PLSetCompleted(w) \/ PLCleanup(w)
    \/ PLSetFailed(w) \/ PLCleanupFailed(w)

TakePL == \E w \in Workers : WorkerTake(w) /\ UNCHANGED <<now, plVars, faults, moreVars, exVars>>
BeginPL == \E w \in Workers : WorkerBegin(w) /\ UNCHANGED <<now, plVars, faults, moreVars, exVars>>
SetProcessing == \E w \in Workers : PLSetProcessing(w) /\ UNCHANGED <<now, faults, moreVars, exVars>>
Transcribe == \E w \in Workers : PLTranscribe(w) /\ UNCHANGED <<now, faults, moreVars, exVars>>
SaveTranscript == \E w \in Workers : PLSaveTranscript(w) /\ UNCHANGED <<now, faults, moreVars, exVars>>
Generate == \E w \in Workers : PLGenerate(w) /\ UNCHANGED <<now, faults, moreVars, exVars>>
SaveSlidesStep == \E w \in Workers : PLSaveSlides(w) /\ UNCHANGED <<now, faults, moreVars, exVars>>
SetCompleted == \E w \in Workers : PLSetCompleted(w) /\ UNCHANGED <<now, faults, moreVars, exVars>>
CleanupAudio == \E w \in Workers : PLCleanup(w) /\ UNCHANGED <<now, faults, moreVars, exVars>>
SetFailed == \E w \in Workers : PLSetFailed(w) /\ UNCHANGED <<now, faults, moreVars, exVars>>
CleanupAudioFailed == \E w \in Workers : PLCleanupFailed(w) /\ UNCHANGED <<now, faults, moreVars, exVars>>
CompletePL == \E w \in Workers : WorkerComplete(w) /\ UNCHANGED <<now, plVars, faults, moreVars, exVars>>
FailPL == \E w \in Workers : WorkerFail(w) /\ UNCHANGED <<now, plVars, faults, moreVars, exVars>>

NextPipeline ==
    \/ SubmitProcessing
    \/ TakePL
    \/ BeginPL
    \/ SetProcessing
    \/ Transcribe
    \/ SaveTranscript
    \/ Generate
    \/ SaveSlidesStep
    \/ SetCompleted
    \/ CleanupAudio
    \/ SetFailed
    \/ CleanupAudioFailed
    \/ CompletePL
    \/ FailPL

SpecPipeline == InitPipeline /\ [][NextPipeline]_vars

(***************************************************************************)
(* The pipeline on the module's own TaskManager instance, with callers     *)
(* that submit any session at any time: submit_processing_task itself      *)
(* looks neither at the session nor at the attempts already queued.        *)
(***************************************************************************)
PoolThreads == 1..DefaultPoolSize

InitPipelineOpen ==
    /\ now = 0
    /\ tasks = <<>>
    /\ futures = {}
    /\ fstate = [tid \in Tokens |-> "NONE"]
    /\ work = [tid \in Tokens |-> [func |-> None, session |-> 0, path |-> 0]]
    /\ queue = <<>>
    /\ workers = [w \in PoolThreads |-> IdleWorker]
    /\ nextToken = 1
    /\ dequeued = {}
    /\ executed = {}
    /\ cancelOK = {}
    /\ ret = [op |-> None, tid |-> 0, val |-> None]
    /\ writes = [tid \in Tokens |-> <<>>]
    /\ reader = IdleReader
    /\ accepting = TRUE
    /\ InitExportManager
    /\ InitAccounts
    /\ sessions = [s \in SessionIds |-> NewSession]
    /\ slides = {}
    /\ audioFiles = {}
    /\ faults = FALSE

\* any caller submits any session, with a temporary file of its own
SubmitProcessingAny ==
    /\ \E s \in SessionIds : submit_processing_task(s, nextToken)
    /\ \E present \in BOOLEAN :
        audioFiles' = IF present THEN audioFiles \cup {nextToken} ELSE audioFiles
    /\ UNCHANGED <<now, sessions, slides, writes, faults, moreVars, exVars>>

\* a pool thread inside _execute_task, around the work unit
PoolThreadStep ==
    /\ \E w \in PoolThreads :
        WorkerTake(w) \/ WorkerBegin(w) \/ WorkerComplete(w) \/ WorkerFail(w)
    /\ UNCHANGED <<now, plVars, faults, moreVars, exVars>>

\* a pool thread inside process_lecture
PipelineStageStep ==
    /\ \E w \in PoolThreads : PLStep(w)
    /\ UNCHANGED <<now, faults, moreVars, exVars>>

NextPipelineOpen ==
    \/ SubmitProcessingAny
    \/ PoolThreadStep
    \/ PipelineStageStep

SpecPipelineOpen == InitPipelineOpen /\ [][NextPipelineOpen]_vars

(***************************************************************************)
(* The export jobs.  The store holds some completed sessions, some of them *)
(* with a slide (up to renaming: the first k exist, the first m of those   *)
(* have a slide); the clock counts days; the only files removed behind the *)
(* manager's back are those of completed jobs.                             *)
(***************************************************************************)
CompletedSession ==
    [processing_status |-> "completed", transcript |-> "transcript",
     audio_duration |-> 12]

OneSlide(s) ==
    [session_id |-> s, slide_number |-> 1, content |-> [attempt |-> 0, idx |-> 1]]

InitExport ==
    /\ now = 0
    /\ InitTaskManager
    /\ InitExportManager
    /\ InitAccounts
    /\ \E k \in 0..MaxSessions, m \in 0..MaxSessions :
        /\ m <= k
        /\ sessions = [s \in 1..k |-> CompletedSession]
        /\ slides = {OneSlide(s) : s \in 1..m}
    /\ audioFiles = {}
    /\ faults = FALSE

CreateJob ==
    /\ \E s \in SessionIds, fmt \in Formats : CreateExportJob(s, fmt)
    /\ UNCHANGED <<now, tmVars, plVars, faults, moreVars>>
SubmitExport ==
    /\ \E j \in JobIds : submit_export_task(j)
    /\ UNCHANGED <<now, tmVars, plVars, faults, moreVars>>
StartExport ==
    /\ \E w \in ExportWorkers : ExStart(w)
    /\ UNCHANGED <<now, tmVars, plVars, faults, moreVars>>
RenderExport ==
    /\ \E w \in ExportWorkers : ExRender(w)
    /\ UNCHANGED <<now, tmVars, plVars, faults, moreVars>>
CommitCompleted ==
    /\ \E w \in ExportWorkers : ExCommitCompleted(w)
    /\ UNCHANGED <<now, tmVars, plVars, faults, moreVars>>
CommitFailed ==
    /\ \E w \in ExportWorkers : ExCommitFailed(w)
    /\ UNCHANGED <<now, tmVars, plVars, faults, moreVars>>
ReapExpired ==
    /\ cleanup_expired_files
    /\ UNCHANGED <<now, tmVars, plVars, faults, moreVars>>
RemoveExternally ==
    /\ \E j \in DOMAIN jobs :
        /\ jobs[j].status = "completed"
        /\ RemoveFileExternally(jobs[j].file_path)
    /\ UNCHANGED <<now, tmVars, plVars, faults, moreVars>>
\* days pass: a whole retention period at once, then day by day, so that a
\* job is seen on its expiry day and on the day after
ClockExport ==
    /\ now' = IF now < ExportTTLDays THEN now + ExportTTLDays ELSE now + 1
    /\ now' <= MaxDays
    /\ UNCHANGED <<tmVars, plVars, faults, moreVars, exVars>>

NextExport ==
    \/ CreateJob
    \/ SubmitExport
    \/ StartExport
    \/ RenderExport
    \/ CommitCompleted
    \/ CommitFailed
    \/ ReapExpired
    \/ RemoveExternally
    \/ ClockExport

SpecExport == InitExport /\ [][NextExport]_vars

(***************************************************************************)
(* C1: within one process_lecture attempt "processing" is written once, at *)
(* the start, then exactly one of "completed" / "failed", and nothing      *)
(* after the terminal status; a row's processing_status only moves into    *)
(* "processing" at the start of an attempt and from "processing" to        *)
(* "completed" or "failed".                                                *)
(***************************************************************************)
AttemptEnded(tid) ==
    \/ fstate[tid] \in {"FINISHED", "FAILED"}
    \/ \E w \in Workers :
          workers[w].tid = tid /\ workers[w].pc \in {"returned", "raised"}

StatusWritesOfAttempt ==
    \A tid \in Tokens :
        /\ writes[tid] \in {<<>>, <<"processing">>,
                            <<"processing", "completed">>,
                            <<"processing", "failed">>}
        /\ tid \in executed => Len(writes[tid]) >= 1
        /\ (AttemptEnded(tid) /\ work[tid].func = "process_lecture")
              => Len(writes[tid]) = 2

StatusMovesAlongTheMachine ==
    \A s \in SessionIds :
        LET old == sessions[s].processing_status
            new == sessions'[s].processing_status
        IN  old # new =>
              \/ new = "processing" /\ old \in {"pending", "completed", "failed"}
              \/ old = "processing" /\ new \in {"completed", "failed"}

C1_StatusMachine ==
    /\ []StatusWritesOfAttempt
    /\ [][StatusMovesAlongTheMachine]_vars

\* one attempt ended completed and a later one of the same session failed
C1_Witness ==
    \E t1, t2 \in Tokens :
        /\ t1 < t2
        /\ work[t1].session = work[t2].session
        /\ writes[t1] = <<"processing", "completed">>
        /\ writes[t2] = <<"processing", "failed">>
        /\ AttemptEnded(t2)

(***************************************************************************)
(* C2: when process_lecture has returned, the session's slide rows are     *)
(* exactly the slides the generation call returned, in order, numbered     *)
(* 1..N without gap or duplicate (N >= 1), and no row of an earlier run    *)
(* remains.                                                                *)
(***************************************************************************)
SlidesAreTheGeneratedDeck(s, tid, gen) ==
    /\ Len(gen) >= 1
    /\ Cardinality(SlidesOf(s)) = Len(gen)
    /\ {r.slide_number : r \in SlidesOf(s)} = 1..Len(gen)
    /\ \A r \in SlidesOf(s) :
          /\ r.content.attempt = tid
          /\ r.content = gen[r.slide_number]

C2_SlidesReplaced ==
    \A w \in Workers :
        (workers[w].pc = "returned" /\ workers[w].ppc = "done")
            => SlidesAreTheGeneratedDeck(SessionOf(w), workers[w].tid, workers[w].gen)

\* a second run of a session returned after an earlier run had stored slides
C2_Witness ==
    \E w \in Workers :
        /\ workers[w].pc = "returned" /\ workers[w].ppc = "done"
        /\ \E t1 \in Tokens :
              /\ t1 < workers[w].tid
              /\ work[t1].session = SessionOf(w)
              /\ writes[t1] = <<"processing", "completed">>

(***************************************************************************)
(* C3: when process_lecture ends by raising (transcription, generation or  *)
(* slide persistence failed), the temporary audio file is gone, the        *)
(* session is "failed", the status poller is given a non-empty error, and  *)
(* the error raised to the task wrapper - which becomes the task record's  *)
(* error - is the non-empty "Processing failed: <stage error>".            *)
(***************************************************************************)
StageErrors ==
    {"Transcription failed", "Audio file not found", "Transcript is too short",
     "Failed to save slides"}

CancelTrueOnlyBeforeDequeue ==
    (ret.op = "cancel_task" /\ ret.val = "True") => ret.tid \notin dequeued

CancelledNeverRuns ==
    \A tid \in cancelOK :
        /\ tid \notin dequeued
        /\ tid \notin executed
        /\ tid \in DOMAIN tasks =>
              tasks[tid].status = FAILED /\ tasks[tid].error = "Task cancelled"

CancelFalseAfterDequeue ==
    \A tid \in 0..MaxTasks :
        (cancel_task(tid) /\ (tid \in dequeued \/ tid \notin DOMAIN tasks))
            => (ret'.val = "False" /\ tasks' = tasks)

C4_CancelOnlyBeforeDequeue ==
    /\ [](CancelTrueOnlyBeforeDequeue /\ CancelledNeverRuns)
    /\ [][CancelFalseAfterDequeue]_vars

\* a cancel returned True, the dropped work item has left the queue, and
\* another task has run meanwhile
C4_Witness ==
    /\ ret.op = "cancel_task" /\ ret.val = "True"
    /\ ret.tid \in cancelOK
    /\ \A i \in 1..Len(queue) : queue[i] # ret.tid
    /\ executed # {}

(***************************************************************************)
(* C5: every submitted task eventually reaches COMPLETED or FAILED, and    *)
(* at most MaxWorkers records are PROCESSING in any state.                 *)
(***************************************************************************)
ProcessingTasks == {tid \in DOMAIN tasks : tasks[tid].status = PROCESSING}

AtMostWProcessing == Cardinality(ProcessingTasks) <= MaxWorkers

IsTerminalOrGone(tid) ==
    tid \notin DOMAIN tasks \/ tasks[tid].status \in Terminal

C5_AllTerminateAtMostW ==
    /\ []AtMostWProcessing
    /\ \A tid \in Tokens : (tid \in DOMAIN tasks) ~> IsTerminalOrGone(tid)

\* more tasks than workers were submitted, all ran and all are terminal
C5_Witness ==
    /\ nextToken > MaxTasks
    /\ Cardinality(executed) > MaxWorkers
    /\ \A tid \in Tokens : tid \in DOMAIN tasks /\ tasks[tid].status \in Terminal

(***************************************************************************)
(* C6: get_task_status on a token that was never issued, or whose record   *)
(* cleanup removed, returns None, does not raise, and leaves the registry  *)
(* as it was.                                                              *)
(***************************************************************************)
C6_StatusOfUnknownIsNone ==
    [][\A tid \in 0..MaxTasks :
          (get_task_status(tid) /\ tid \notin DOMAIN tasks)
              => (ret'.val = None /\ tasks' = tasks /\ futures' = futures)]_vars

\* the token was issued, its record was cleaned up, and the lookup said None
C6_Witness ==
    /\ ret.op = "get_task_status" /\ ret.val = None
    /\ ret.tid \in 1..(nextToken - 1)
    /\ ret.tid \notin DOMAIN tasks

(***************************************************************************)
(* C7: when _process_export_job runs for an existing job with format pdf   *)
(* or pptx whose session exists and has at least one slide, the run either *)
(* renders a file or takes the error branch; when rendering succeeded the  *)
(* row is committed with status "completed", a non-empty file_path equal   *)
(* to the rendered path, the download_url built from the job id and        *)
(* expires_at = completion time + 7 days; when loading or rendering raised *)
(* the row is committed with status "failed" and a non-empty               *)
(* error_message.                                                          *)
(***************************************************************************)
NonEmpty(str) == str # None /\ Len(str) > 0

ValidExportInputs(row) ==
    /\ row.export_format \in {"pdf", "pptx"}
    /\ row.session_id \in DOMAIN sessions
    /\ SlidesOf(row.session_id) # {}

ExportRunContract(w) ==
    LET j == exWorkers[w].job IN
    /\ (ExRender(w) /\ ValidExportInputs(jobs[j])) =>
          \/ /\ exWorkers'[w].pc = "rendered"
             /\ NonEmpty(exWorkers'[w].path)
             /\ exWorkers'[w].path \in exportFiles'
          \/ /\ exWorkers'[w].pc = "failing"
             /\ NonEmpty(exWorkers'[w].err)
    /\ (ExRender(w) /\ ~ValidExportInputs(jobs[j])) =>
          /\ exWorkers'[w].pc = "failing"
          /\ NonEmpty(exWorkers'[w].err)
    /\ ExCommitCompleted(w) =>
          /\ ValidExportInputs(jobs[j])
          /\ jobs'[j].status = "completed"
          /\ NonEmpty(jobs'[j].file_path)
          /\ jobs'[j].file_path = exWorkers[w].path
          /\ jobs'[j].download_url = "/exports/download/" \o ToString(j)
          /\ jobs'[j].expires_at = now + 7
    /\ ExCommitFailed(w) =>
          /\ jobs'[j].status = "failed"
          /\ NonEmpty(jobs'[j].error_message)

C8_ErrorAlwaysNamesFormat ==
    \A j \in DOMAIN jobs :
        (jobs[j].export_format \notin {"pdf", "pptx"} /\ jobs[j].status = "failed")
            => jobs[j].error_message =
                   "Unsupported export format: " \o jobs[j].export_format

(***************************************************************************)
(* C8 (amended): an export job whose format is neither pdf nor pptx is     *)
(* never rendered and never completed: once a worker has finished with it  *)
(* its status is "failed" and it has no file_path.  Its error_message      *)
(* names the unsupported format when its session exists and has at least   *)
(* one slide; otherwise the session check or the slides check, which come  *)
(* before the format dispatch, supply the message.                         *)
(***************************************************************************)
C8_UnsupportedFormatFails ==
    \A j \in DOMAIN jobs :
        jobs[j].export_format \notin {"pdf", "pptx"} =>
            /\ jobs[j].status \in {"pending", "processing", "failed"}
            /\ jobs[j].file_path = None
            /\ jobs[j].download_url = None
            /\ \A w \in ExportWorkers :
                   exWorkers[w].job = j => exWorkers[w].pc # "rendered"
            /\ jobs[j].status = "failed" =>
                   jobs[j].error_message =
                       IF jobs[j].session_id \notin DOMAIN sessions
                           THEN "Session " \o ToString(jobs[j].session_id)
                                    \o " not found"
                       ELSE IF SlidesOf(jobs[j].session_id) = {}
                           THEN "No slides found for session "
                                    \o ToString(jobs[j].session_id)
                       ELSE "Unsupported export format: " \o jobs[j].export_format

\* a docx job of a session with slides has failed, naming the format
C8_Witness ==
    \E j \in DOMAIN jobs :
        /\ jobs[j].export_format = "docx"
        /\ jobs[j].status = "failed"
        /\ jobs[j].error_message = "Unsupported export format: docx"

(***************************************************************************)
(* C9: a run of cleanup_expired_files leaves every job that was            *)
(* "completed" with expires_at in the past with status "expired",          *)
(* file_path and download_url cleared and its file absent from disk        *)
(* (whether or not it was still there); every other job is left unchanged  *)
(* and its file is kept.                                                   *)
(***************************************************************************)
ReaperPostCondition ==
    \A j \in DOMAIN jobs :
        IF jobs[j].status = "completed" /\ jobs[j].expires_at # NoTime
               /\ jobs[j].expires_at < now
        THEN /\ jobs'[j].status = "expired"
             /\ jobs'[j].file_path = None
             /\ jobs'[j].download_url = None
             /\ jobs[j].file_path \notin exportFiles'
        ELSE /\ jobs'[j] = jobs[j]
             /\ jobs[j].file_path \in exportFiles
                   => jobs[j].file_path \in exportFiles'

C9_ReaperPostCondition ==
    [][ReapExpired => (DOMAIN jobs' = DOMAIN jobs /\ ReaperPostCondition)]_vars

\* the reaper has expired a job
C9_Witness ==
    \E j \in DOMAIN jobs :
        /\ jobs[j].status = "expired"
        /\ jobs[j].file_path = None
        /\ jobs[j].expires_at < now

(***************************************************************************)
(* C10: in every reachable state of an export job row, file_path is        *)
(* non-null if and only if status = "completed".                           *)
(***************************************************************************)
C10_FilePathIffCompleted ==
    \A j \in DOMAIN jobs :
        (jobs[j].file_path # None) <=> (jobs[j].status = "completed")

(***************************************************************************)
(* C11: each export job is processed by exactly one worker attempt and     *)
(* reaches exactly one terminal state: a worker begins an attempt only for *)
(* a job that is still "pending", and no step of a worker changes the      *)
(* status of a job that is already completed, failed or expired.           *)
(***************************************************************************)
TerminalJobStatus == {"completed", "failed", "expired"}

ExportWorkerStep(w) ==
    ExStart(w) \/ ExRender(w) \/ ExCommitCompleted(w) \/ ExCommitFailed(w)

C11_OneAttemptOneTerminal ==
    [][\A w \in ExportWorkers :
          /\ (ExStart(w) /\ Head(exQueue) \in DOMAIN jobs)
                => jobs[Head(exQueue)].status = "pending"
          /\ ExportWorkerStep(w) =>
                \A j \in DOMAIN jobs :
                    jobs[j].status \in TerminalJobStatus
                        => jobs'[j].status = jobs[j].status]_vars

(***************************************************************************)
(* C12: at most one process_lecture attempt is in flight for a session at  *)
(* any time: two pool threads are never inside attempts for the same       *)
(* session id.                                                             *)
(***************************************************************************)
ExecutingAttempt(w) ==
    /\ workers[w].pc = "running"
    /\ work[workers[w].tid].func = "process_lecture"

C12_OneAttemptPerSession ==
    \A w1 \in DOMAIN workers : \A w2 \in DOMAIN workers :
        (w1 # w2 /\ ExecutingAttempt(w1) /\ ExecutingAttempt(w2))
            => SessionOf(w1) # SessionOf(w2)

(***************************************************************************)
(* C13: a reader of the store sees the slides of a session either entirely *)
(* as they were before the persistence stage or entirely as the newly      *)
(* generated set.  The delete and the inserts of _save_slides_to_database  *)
(* belong to one transaction: `slides` is what committed transactions have *)
(* written, so every step either leaves a session's rows as they were or   *)
(* replaces them by the whole deck of the attempt that is persisting, and  *)
(* in every state the rows of a session are one attempt's whole deck.      *)
(***************************************************************************)
OneWholeDeck(s) ==
    \/ SlidesOf(s) = {}
    \/ \E tid \in Tokens : \E n \in 1..MaxSlides :
          /\ {r.slide_number : r \in SlidesOf(s)} = 1..n
          /\ Cardinality(SlidesOf(s)) = n
          /\ \A r \in SlidesOf(s) : r.content = [attempt |-> tid, idx |-> r.slide_number]

OldOrNewSlides(s) ==
    \/ {r \in slides' : r.session_id = s} = SlidesOf(s)
    \/ \E w \in Workers :
          /\ AtStage(w, "save_slides")
          /\ SessionOf(w) = s
          /\ {r \in slides' : r.session_id = s} = NewSlideRows(s, workers[w].gen)

C13_SlidesReplacedAtomically ==
    /\ [](\A s \in SessionIds : OneWholeDeck(s))
    /\ [][\A s \in SessionIds : OldOrNewSlides(s)]_vars

\* the persistence stage of a reprocessing run has just committed a deck
\* shorter than the one it replaced
C13_Witness ==
    \E w \in Workers :
        /\ AtStage(w, "set_completed")
        /\ Len(workers[w].gen) < MaxSlides
        /\ SlidesOf(SessionOf(w)) = NewSlideRows(SessionOf(w), workers[w].gen)
        /\ \E t1 \in Tokens :
              /\ t1 < workers[w].tid
              /\ work[t1].session = SessionOf(w)
              /\ writes[t1] = <<"processing", "completed">>

(***************************************************************************)
(* C14: the execution wrapper moves a dequeued task from pending to        *)
(* processing and records started_at before the work unit runs; on normal  *)
(* return it writes status completed, result = the returned value,         *)
(* progress = 100 and completed_at; on a raised error it writes status     *)
(* failed, error = the error's message and completed_at; either way the    *)
(* record is terminal with a completion time when the wrapper finishes.    *)
(***************************************************************************)
WrapperContract(w) ==
    LET tid == workers[w].tid IN
    /\ WorkerBegin(w) =>
          /\ tid \in DOMAIN tasks
          /\ tasks[tid].status = PENDING
          /\ tid \notin executed
          /\ tasks'[tid].status = PROCESSING
          /\ tasks'[tid].started_at = now
          /\ tasks'[tid].completed_at = NoTime
    /\ WorkerRunUnit(w) =>
          /\ tasks[tid].status = PROCESSING
          /\ tasks[tid].started_at # NoTime
    /\ WorkerComplete(w) =>
          /\ tasks[tid].status = PROCESSING
          /\ tasks'[tid].status = COMPLETED
          /\ tasks'[tid].result = workers[w].out
          /\ tasks'[tid].progress = 100
          /\ tasks'[tid].completed_at = now
          /\ tasks'[tid].started_at = tasks[tid].started_at
          /\ tasks'[tid].error = None
    /\ WorkerFail(w) =>
          /\ tasks[tid].status = PROCESSING
          /\ tasks'[tid].status = FAILED
          /\ tasks'[tid].error = workers[w].out
          /\ tasks'[tid].error # None
          /\ tasks'[tid].completed_at = now
          /\ tasks'[tid].started_at = tasks[tid].started_at

C14_WrapperContract ==
    [][\A w \in Workers : WrapperContract(w)]_vars

\* one task has completed and another has failed, at a later hour
C14_Witness ==
    \E t1 \in DOMAIN tasks : \E t2 \in DOMAIN tasks :
        /\ tasks[t1].status = COMPLETED
        /\ tasks[t1].result = "value"
        /\ tasks[t1].progress = 100
        /\ tasks[t2].status = FAILED
        /\ tasks[t2].error = "unit error"
        /\ tasks[t2].completed_at > tasks[t2].started_at

(***************************************************************************)
(* C15: update_task_progress(token, percent) changes nothing when the      *)
(* token is unknown or the task is already completed or failed; the        *)
(* progress of a completed task stays 100.                                 *)
(***************************************************************************)
C15_ProgressNoOpWhenTerminal ==
    [][\A tid \in 0..MaxTasks : \A p \in ProgressValues :
          (/\ update_task_progress(tid, p)
           /\ (tid \notin DOMAIN tasks \/ tasks[tid].status \in Terminal))
              => tasks' = tasks]_vars

(***************************************************************************)
(* C16: cleanup_completed_tasks(max_age) removes exactly the records that  *)
(* are completed or failed with completed_at older than the cutoff,        *)
(* together with their futures; every pending or processing record and     *)
(* every terminal record not older than the cutoff is left unchanged.      *)
(***************************************************************************)
OldTerminalRecords(age) ==
    {tid \in DOMAIN tasks :
        /\ tasks[tid].status = COMPLETED \/ tasks[tid].status = FAILED
        /\ tasks[tid].completed_at # NoTime
        /\ tasks[tid].completed_at < now - age}

CleanupPostCondition(age) ==
    /\ DOMAIN tasks' = DOMAIN tasks \ OldTerminalRecords(age)
    /\ futures' = futures \ OldTerminalRecords(age)
    /\ \A tid \in DOMAIN tasks' : tasks'[tid] = tasks[tid]

C16_CleanupRemovesOldTerminal ==
    [][\A age \in {0, 1} :
          cleanup_completed_tasks(age) => CleanupPostCondition(age)]_vars

\* an old terminal record is gone with its future while a record that is
\* not terminal is still there
C16_Witness ==
    /\ \E tid \in 1..(nextToken - 1) :
          tid \notin DOMAIN tasks /\ tid \notin futures
    /\ \E t2 \in DOMAIN tasks :
          tasks[t2].status \in {PENDING, PROCESSING} /\ t2 \in futures

(***************************************************************************)
(* C17: an error raised inside one work unit is confined to that task: it  *)
(* is recorded on that task's record and re-raised into that task's        *)
(* future; the records and futures of all other tasks, the queue and the   *)
(* other pool threads are unchanged by it; the thread is free again, and   *)
(* every other submitted task still reaches its own terminal status.       *)
(***************************************************************************)
FailureIsConfined(w) ==
    LET tid == workers[w].tid IN
    WorkerFail(w) =>
        /\ tasks'[tid].status = FAILED
        /\ tasks'[tid].error = workers[w].out
        /\ fstate'[tid] = "FAILED"
        /\ DOMAIN tasks' = DOMAIN tasks
        /\ \A other \in DOMAIN tasks : other # tid => tasks'[other] = tasks[other]
        /\ \A other \in Tokens : other # tid => fstate'[other] = fstate[other]
        /\ futures' = futures
        /\ queue' = queue
        /\ workers'[w] = IdleWorker
        /\ \A v \in Workers : v # w => workers'[v] = workers[v]

SomeUnitRaised ==
    \E tid \in Tokens : fstate[tid] = "FAILED"

C17_FailureConfined ==
    /\ [][\A w \in Workers : FailureIsConfined(w)]_vars
    /\ \A tid \in Tokens :
          (SomeUnitRaised /\ tid \in DOMAIN tasks) ~> IsTerminalOrGone(tid)

\* a work unit raised, and a task submitted after it has completed
C17_Witness ==
    \E t1 \in DOMAIN tasks : \E t2 \in DOMAIN tasks :
        /\ t1 < t2
        /\ fstate[t1] = "FAILED"
        /\ tasks[t1].status = FAILED
        /\ tasks[t1].error = "unit error"
        /\ tasks[t2].status = COMPLETED
        /\ tasks[t2].started_at >= tasks[t1].completed_at

(***************************************************************************)
(* C18: submit_task returns a token distinct from every token issued       *)
(* before and, in the same step, creates the record for it in status       *)
(* pending and queues the work; a pool thread never holds a dequeued task  *)
(* whose record is missing; a record leaves the registry only by           *)
(* cleanup_completed_tasks, and until then get_task_status on the token    *)
(* finds it.                                                               *)
(***************************************************************************)
IssuedTokens == 1..(nextToken - 1)

SubmitCreatesPendingRecord ==
    SubmitUnit =>
        /\ nextToken \notin IssuedTokens
        /\ nextToken \notin DOMAIN tasks
        /\ \A tid \in IssuedTokens : tid # nextToken
        /\ IssuedTokens' = IssuedTokens \cup {nextToken}
        /\ nextToken \in DOMAIN tasks'
        /\ tasks'[nextToken].status = PENDING
        /\ tasks'[nextToken].task_id = nextToken
        /\ nextToken \in futures'
        /\ nextToken \notin dequeued'
        /\ queue'[Len(queue')] = nextToken

RecordsLeaveOnlyByCleanup ==
    \A tid \in DOMAIN tasks :
        tid \notin DOMAIN tasks' => \E age \in {0, 1} : cleanup_completed_tasks(age)

StatusOfIssuedTokenIsFound ==
    \A tid \in DOMAIN tasks :
        get_task_status(tid) => ret'.val = "TaskInfo"

DequeuedTaskHasRecord ==
    /\ DOMAIN tasks \subseteq IssuedTokens
    /\ \A w \in Workers :
          workers[w].pc # "idle" => workers[w].tid \in DOMAIN tasks
    /\ \A tid \in dequeued :
          tid \in DOMAIN tasks \/ fstate[tid] \in {"FINISHED", "FAILED"}

C18_SubmitCreatesRecordFirst ==
    /\ []DequeuedTaskHasRecord
    /\ [][/\ SubmitCreatesPendingRecord
          /\ RecordsLeaveOnlyByCleanup
          /\ StatusOfIssuedTokenIsFound]_vars

\* a pool thread has dequeued the second token issued, its record is still
\* pending, and a status lookup has just found it
C18_Witness ==
    \E w \in Workers :
        /\ workers[w].pc = "dequeued"
        /\ workers[w].tid = 2
        /\ tasks[workers[w].tid].status = PENDING
        /\ ret = [op |-> "get_task_status", tid |-> workers[w].tid, val |-> "TaskInfo"]

(***************************************************************************)
(* C19: cleanup_expired_files is idempotent: after one run a second run at *)
(* the same time selects no job, so it writes no row and removes no file,  *)
(* and the rows and files are as the first run left them; a run whose      *)
(* expired job has lost its file already completes all the same and marks  *)
(* the job expired without touching any other file.                        *)
(***************************************************************************)
SecondRunSelection ==
    {j \in DOMAIN jobs' :
        /\ jobs'[j].status = "completed"
        /\ jobs'[j].expires_at # NoTime
        /\ jobs'[j].expires_at < now'}

ReapIsIdempotent ==
    /\ now' = now
    /\ SecondRunSelection = {}
    /\ ExpiredJobs' = {}
    /\ \A j \in ExpiredJobs :
          jobs[j].file_path \notin exportFiles =>
              /\ jobs'[j].status = "expired"
              /\ jobs'[j].file_path = None
    /\ (\A j \in ExpiredJobs : jobs[j].file_path \notin exportFiles)
          => exportFiles' = exportFiles

C19_ReapIdempotent ==
    [][ReapExpired => ReapIsIdempotent]_vars

\* a file was rendered, its job has been expired, no file is left and a
\* further run has nothing to select
C19_Witness ==
    /\ nextPath > 1
    /\ exportFiles = {}
    /\ ExpiredJobs = {}
    /\ \E j \in DOMAIN jobs :
          jobs[j].status = "expired" /\ jobs[j].download_url = None

(***************************************************************************)
(* C20: when a stage of process_lecture raises, process_lecture raises to  *)
(* its caller: an attempt whose stage failed only moves through the except *)
(* branch and ends raised, the wrapper then records status failed with an  *)
(* error containing the stage's message, and no record is completed for an *)
(* attempt whose stage failed.                                             *)
(***************************************************************************)
StageFailed(w) == workers[w].err # None

FailedStageRaises ==
    \A w \in Workers :
        StageFailed(w) =>
            /\ workers[w].pc \in {"running", "raised"}
            /\ workers[w].ppc \in {"set_failed", "cleanup_failed", "done"}
            /\ workers[w].pc = "raised" <=> workers[w].ppc = "done"
            /\ tasks[workers[w].tid].status = PROCESSING

CompletedOnlyWithoutFailure ==
    \A tid \in DOMAIN tasks :
        (work[tid].func = "process_lecture" /\ tasks[tid].status = COMPLETED)
            => (writes[tid] = <<"processing", "completed">> /\ tasks[tid].error = None)

WrapperRecordsStageError ==
    \A w \in Workers :
        /\ (WorkerFail(w) /\ work[workers[w].tid].func = "process_lecture") =>
              /\ StageFailed(w)
              /\ tasks'[workers[w].tid].status = FAILED
              /\ tasks'[workers[w].tid].error =
                     "Processing failed: " \o workers[w].err
              /\ tasks'[workers[w].tid].result = None
        /\ (WorkerComplete(w) /\ work[workers[w].tid].func = "process_lecture") =>
              ~StageFailed(w)

C20_StageErrorReachesTask ==
    /\ [](FailedStageRaises /\ CompletedOnlyWithoutFailure)
    /\ [][WrapperRecordsStageError]_vars

\* transcription raised and the task record carries its message
C20_Witness ==
    \E tid \in DOMAIN tasks :
        /\ tasks[tid].status = FAILED
        /\ tasks[tid].error = "Processing failed: Transcription failed"
        /\ writes[tid] = <<"processing", "failed">>
        /\ fstate[tid] = "FAILED"

(***************************************************************************)
(* C21: once the transcription stage has succeeded in an attempt, the      *)
(* session row holds that transcript and its duration (in whole seconds)   *)
(* before the generation call starts and through the rest of the attempt,  *)
(* and after the attempt has ended in "failed" because generation or slide *)
(* persistence raised the row still holds the transcript of that attempt   *)
(* (or of a later attempt of the session), never none.                     *)
(***************************************************************************)
TranscriptPersisted(w) ==
    /\ sessions[SessionOf(w)].transcript = workers[w].tr.text
    /\ sessions[SessionOf(w)].transcript = "transcript " \o ToString(workers[w].tid)
    /\ sessions[SessionOf(w)].audio_duration = 12

TranscriptHeldDuringAttempt ==
    \A w \in Workers :
        (workers[w].tr # NoTranscription /\ workers[w].ppc # "save_transcript")
            => TranscriptPersisted(w)

FailedAfterTranscription(tid) ==
    /\ tid \in DOMAIN tasks
    /\ tasks[tid].status = FAILED
    /\ tasks[tid].error \in {"Processing failed: Transcript is too short",
                             "Processing failed: Failed to save slides"}

TranscriptKeptAfterFailure ==
    \A tid \in Tokens :
        FailedAfterTranscription(tid) =>
            /\ sessions[work[tid].session].processing_status # "pending"
            /\ sessions[work[tid].session].audio_duration = 12
            /\ \E t2 \in tid..MaxTasks :
                  /\ work[t2].session = work[tid].session
                  /\ sessions[work[tid].session].transcript
                         = "transcript " \o ToString(t2)

C21_TranscriptSurvivesFailure ==
    TranscriptHeldDuringAttempt /\ TranscriptKeptAfterFailure

\* generation raised after a successful transcription; the attempt has
\* ended, the session is failed and holds the attempt's transcript
C21_Witness ==
    \E tid \in Tokens :
        /\ FailedAfterTranscription(tid)
        /\ tasks[tid].error = "Processing failed: Transcript is too short"
        /\ sessions[work[tid].session].processing_status = "failed"
        /\ sessions[work[tid].session].transcript = "transcript " \o ToString(tid)

(***************************************************************************)
(* The export pipeline with the download endpoint.                         *)
(***************************************************************************)
Download ==
    /\ \E j \in 0..MaxJobs : download_export(j)
    /\ UNCHANGED <<now, tmVars, plVars, faults, rdVars, guVars>>

NextDownload ==
    \/ CreateJob
    \/ SubmitExport
    \/ StartExport
    \/ RenderExport
    \/ CommitCompleted
    \/ CommitFailed
    \/ ReapExpired
    \/ RemoveExternally
    \/ ClockExport
    \/ Download

SpecDownload == InitExport /\ [][NextDownload]_vars

\* the "no longer available" replies
GoneOutcomes == {"410 Export file no longer available", "410 Export file has expired"}

\* the job's file was reaped, is missing, or the job's expiry has passed
NoLongerAvailable(j) ==
    /\ j \in DOMAIN jobs
    /\ \/ jobs[j].status = "expired"
       \/ /\ jobs[j].status = "completed"
          /\ \/ jobs[j].file_path \notin exportFiles
             \/ jobs[j].expires_at < now

\* a download of such a job never returns a file
DownloadNeverServesStaleFile ==
    [][\A j \in JobIds :
          (download_export(j) /\ NoLongerAvailable(j))
              => exRet'.val \notin exportFiles]_vars

\* a completed job whose file is missing or whose expiry has passed is
\* answered with a "gone" reply
UnreapedStaleJobIsGone ==
    [][\A j \in JobIds :
          (download_export(j) /\ NoLongerAvailable(j) /\ jobs[j].status = "completed")
              => exRet'.val \in GoneOutcomes]_vars

(***************************************************************************)
(* C22: a download request for an export whose file was reaped (the job    *)
(* is "expired"), whose file is missing, or whose expires_at has passed,   *)
(* is answered with a "no longer available" (gone) reply and never with    *)
(* the file.                                                               *)
(***************************************************************************)
C22_StaleDownloadIsGone ==
    [][\A j \in JobIds :
          (download_export(j) /\ NoLongerAvailable(j))
              => /\ exRet'.val \in GoneOutcomes
                 /\ exRet'.val \notin exportFiles]_vars

(***************************************************************************)
(* create_guest_user (auth.py) with the schema self-healing of init_db.    *)
(***************************************************************************)
MaxGuestCalls == 2

GuestTTL == 10

Emails == {"guest@example.org", "member@example.org", "not-an-email"}

\* validate_email_format
ValidEmail(email) == email # "not-an-email"

\* str(e) of the store's exceptions: a missing column, anything else
DriftError == "no such column: users.is_guest"

OtherError == "database is locked"

\* a handler that takes every store error for a schema-drift error
IsSchemaDriftAnyError(msg) == TRUE

\* "no such column" in str(e).lower()
IsSchemaDrift(msg) == msg = DriftError

\* the row a guest request writes: a new guest or a renewed expiry
GuestRow == [is_guest |-> TRUE, guest_expires_at |-> now + GuestTTL]

\* one pass over the body of create_guest_user: the lookup, then the write.
\* A store that lacks the column raises at the lookup; otherwise the commit
\* succeeds or raises some other error.  The result is <<reply, error>>.
GuestAttempts(email) ==
    IF schemaDrift THEN {[reply |-> None, error |-> DriftError]}
    ELSE IF email \in DOMAIN users /\ ~users[email].is_guest
        THEN {[reply |-> "400 This email is registered", error |-> None]}
    ELSE {[reply |-> email, error |-> None]}
         \cup {[reply |-> None, error |-> OtherError] : ok \in DbOutcomes \ {TRUE}}

\* the users table after a pass that replied with the user
WrittenUsers(email) ==
    [e \in DOMAIN users \cup {email} |-> IF e = email THEN GuestRow ELSE users[e]]

\* the request handler calls create_guest_user(db, email)
GuestCall(email) ==
    /\ guest.pc = "idle"
    /\ guestCalls < MaxGuestCalls
    /\ guestCalls' = guestCalls + 1
    /\ guest' = [IdleGuestCall EXCEPT !.pc = "try", !.email = email]
    /\ UNCHANGED <<users, schemaDrift>>

\* lines 105-150 and the except branches up to line 159
GuestFirstTry ==
    /\ guest.pc = "try"
    /\ IF ~ValidEmail(guest.email)
          THEN /\ guest' = [guest EXCEPT !.pc = "done",
                               !.out = "400 Please enter a valid email address"]
               /\ UNCHANGED users
          ELSE \E a \in GuestAttempts(guest.email) :
                 IF a.error = None
                    THEN /\ guest' = [guest EXCEPT !.pc = "done", !.tries = 1,
                                         !.out = a.reply]
                         /\ users' = IF a.reply = guest.email
                                        THEN WrittenUsers(guest.email) ELSE users
                    ELSE /\ guest' = [guest EXCEPT !.tries = 1, !.err = a.error,
                                 !.pc = IF IsSchemaDrift(a.error) THEN "heal" ELSE "raise"]
                         /\ UNCHANGED users
    /\ UNCHANGED <<schemaDrift, guestCalls>>

\* lines 160-163: init_db(); its ALTER TABLE statements swallow their errors
GuestHeal ==
    /\ guest.pc = "heal"
    /\ \E ok \in DbOutcomes : schemaDrift' = IF ok THEN FALSE ELSE schemaDrift
    /\ guest' = [guest EXCEPT !.pc = "retry", !.heals = @ + 1]
    /\ UNCHANGED <<users, guestCalls>>

\* lines 165-198: the body once more; every exception of it, the 400 of a
\* registered email included, falls through to the original error
GuestRetry ==
    /\ guest.pc = "retry"
    /\ \E a \in GuestAttempts(guest.email) :
         IF a.reply = guest.email
            THEN /\ guest' = [guest EXCEPT !.pc = "done", !.tries = @ + 1,
                                 !.out = a.reply]
                 /\ users' = WrittenUsers(guest.email)
            ELSE /\ guest' = [guest EXCEPT !.pc = "raise", !.tries = @ + 1]
                 /\ UNCHANGED users
    /\ UNCHANGED <<schemaDrift, guestCalls>>

\* lines 200-203: HTTP 500 with the original error
GuestRaise ==
    /\ guest.pc = "raise"
    /\ guest' = [guest EXCEPT !.pc = "done",
                    !.out = "500 Database error: " \o guest.err]
    /\ UNCHANGED <<users, schemaDrift, guestCalls>>

\* the request ends
GuestReturn ==
    /\ guest.pc = "done"
    /\ guest' = IdleGuestCall
    /\ UNCHANGED <<users, schemaDrift, guestCalls>>

\* the application is started on a database file of an older schema
OldSchemaDeployed ==
    /\ guest.pc = "idle"
    /\ ~schemaDrift
    /\ schemaDrift' = TRUE
    /\ UNCHANGED <<users, guest, guestCalls>>

InitGuest ==
    /\ now = 0
    /\ InitTaskManager
    /\ InitExportManager
    /\ sessions = <<>>
    /\ slides = {}
    /\ audioFiles = {}
    /\ faults = TRUE
    /\ users = ("member@example.org" :> [is_guest |-> FALSE, guest_expires_at |-> NoTime])
    /\ schemaDrift \in BOOLEAN
    /\ guest = IdleGuestCall
    /\ guestCalls = 0

GuestFrame == UNCHANGED <<now, tmVars, plVars, faults, exVars, tkVars, rdVars>>

CallGuest == (\E email \in Emails : GuestCall(email)) /\ GuestFrame
FirstTryGuest == GuestFirstTry /\ GuestFrame
HealGuest == GuestHeal /\ GuestFrame
RetryGuest == GuestRetry /\ GuestFrame
RaiseGuest == GuestRaise /\ GuestFrame
ReturnGuest == GuestReturn /\ GuestFrame
DeployOldSchema == OldSchemaDeployed /\ GuestFrame
ClockGuest == Tick /\ UNCHANGED <<tmVars, plVars, faults, exVars, moreVars>>

NextGuest ==
    \/ CallGuest
    \/ FirstTryGuest
    \/ HealGuest
    \/ RetryGuest
    \/ RaiseGuest
    \/ ReturnGuest
    \/ DeployOldSchema
    \/ ClockGuest

SpecGuest == InitGuest /\ [][NextGuest]_vars

(***************************************************************************)
(* C23: when a storage operation of create_guest_user fails with a         *)
(* schema-drift error, the schema is re-applied once and the body is run   *)
(* once more: a successful second pass returns the row it wrote, a failing *)
(* second pass surfaces the (original) failure without a third pass, and a *)
(* storage error that is not a schema-drift error is never retried.        *)
(***************************************************************************)
GuestCallEnded == guest.pc = "done" /\ guest.tries > 0

C23_WitnessRetryFailed ==
    /\ GuestCallEnded
    /\ guest.tries = 2
    /\ guest.out = "500 Database error: " \o DriftError

(***************************************************************************)
(* The TaskManager seen by a caller that keeps the TaskInfo object which   *)
(* get_task_status returned.  The object is the one stored in tasks (no    *)
(* copy is made), the caller reads its fields without the lock, and the    *)
(* wrapper's locked sections assign the fields one statement at a time.    *)
(***************************************************************************)
\* positions of a pool thread inside a locked section of _execute_task
InLockedSection == {"c_status", "c_result", "c_progress", "f_status", "f_error"}

LockHeld == \E w \in Workers : workers[w].pc \in InLockedSection

\* line 202: self.tasks[task_id].status = TaskStatus.COMPLETED
WriteCompletedStatus(w) ==
    /\ workers[w].pc = "returned"
    /\ ~LockHeld
    /\ tasks' = IF workers[w].tid \in DOMAIN tasks
                   THEN [tasks EXCEPT ![workers[w].tid].status = COMPLETED]
                   ELSE tasks
    /\ workers' = [workers EXCEPT ![w].pc = "c_status"]
    /\ UNCHANGED <<futures, fstate, work, queue, nextToken, dequeued,
                   executed, cancelOK, ret>>

\* line 203: self.tasks[task_id].result = result
WriteResult(w) ==
    /\ workers[w].pc = "c_status"
    /\ tasks' = IF workers[w].tid \in DOMAIN tasks
                   THEN [tasks EXCEPT ![workers[w].tid].result = workers[w].out]
                   ELSE tasks
    /\ workers' = [workers EXCEPT ![w].pc = "c_result"]
    /\ UNCHANGED <<futures, fstate, work, queue, nextToken, dequeued,
                   executed, cancelOK, ret>>

\* line 204: self.tasks[task_id].progress = 100
WriteProgress(w) ==
    /\ workers[w].pc = "c_result"
    /\ tasks' = IF workers[w].tid \in DOMAIN tasks
                   THEN [tasks EXCEPT ![workers[w].tid].progress = 100]
                   ELSE tasks
    /\ workers' = [workers EXCEPT ![w].pc = "c_progress"]
    /\ UNCHANGED <<futures, fstate, work, queue, nextToken, dequeued,
                   executed, cancelOK, ret>>

\* line 205 and the return: completed_at, the lock is released, the future
\* gets the result
WriteCompletedAt(w) ==
    /\ workers[w].pc = "c_progress"
    /\ tasks' = IF workers[w].tid \in DOMAIN tasks
                   THEN [tasks EXCEPT ![workers[w].tid].completed_at = now]
                   ELSE tasks
    /\ fstate' = [fstate EXCEPT ![workers[w].tid] = "FINISHED"]
    /\ workers' = [workers EXCEPT ![w] = IdleWorker]
    /\ UNCHANGED <<futures, work, queue, nextToken, dequeued, executed,
                   cancelOK, ret>>

\* line 216: self.tasks[task_id].status = TaskStatus.FAILED
WriteFailedStatus(w) ==
    /\ workers[w].pc = "raised"
    /\ ~LockHeld
    /\ tasks' = IF workers[w].tid \in DOMAIN tasks
                   THEN [tasks EXCEPT ![workers[w].tid].status = FAILED]
                   ELSE tasks
    /\ workers' = [workers EXCEPT ![w].pc = "f_status"]
    /\ UNCHANGED <<futures, fstate, work, queue, nextToken, dequeued,
                   executed, cancelOK, ret>>

\* line 217: self.tasks[task_id].error = error_msg
WriteError(w) ==
    /\ workers[w].pc = "f_status"
    /\ tasks' = IF workers[w].tid \in DOMAIN tasks
                   THEN [tasks EXCEPT ![workers[w].tid].error = workers[w].out]
                   ELSE tasks
    /\ workers' = [workers EXCEPT ![w].pc = "f_error"]
    /\ UNCHANGED <<futures, fstate, work, queue, nextToken, dequeued,
                   executed, cancelOK, ret>>

\* lines 218-221: completed_at, the lock is released, the exception goes
\* into the future
WriteFailedAt(w) ==
    /\ workers[w].pc = "f_error"
    /\ tasks' = IF workers[w].tid \in DOMAIN tasks
                   THEN [tasks EXCEPT ![workers[w].tid].completed_at = now]
                   ELSE tasks
    /\ fstate' = [fstate EXCEPT ![workers[w].tid] = "FAILED"]
    /\ workers' = [workers EXCEPT ![w] = IdleWorker]
    /\ UNCHANGED <<futures, work, queue, nextToken, dequeued, executed,
                   cancelOK, ret>>

\* get_task_status(tid) for an existing record (or one entry of
\* get_all_tasks' shallow copy): the caller now holds the stored object
ReaderGet(tid) ==
    /\ reader.pc = "idle"
    /\ ~LockHeld
    /\ tid \in DOMAIN tasks
    /\ reader' = [IdleReader EXCEPT !.pc = "got", !.tid = tid]

\* the caller evaluates task_info.status
ReaderReadStatus ==
    /\ reader.pc = "got"
    /\ reader' = [reader EXCEPT !.pc = "status_read",
                                !.status = tasks[reader.tid].status]

\* the caller evaluates the other fields of the object
ReaderReadFields ==
    /\ reader.pc = "status_read"
    /\ reader' = [reader EXCEPT !.pc = "read",
                     !.result = tasks[reader.tid].result,
                     !.error = tasks[reader.tid].error,
                     !.progress = tasks[reader.tid].progress,
                     !.completed_at = tasks[reader.tid].completed_at]

\* the caller lets go of the object
ReaderDrop ==
    /\ reader.pc = "read"
    /\ reader' = IdleReader

TMFrame == UNCHANGED <<now, plVars, faults, exVars, tkVars, guVars>>

SubmitRd == ~LockHeld /\ submit_task("unit", 0, 0) /\ UNCHANGED <<rdVars>> /\ TMFrame
CancelRd == ~LockHeld /\ (\E tid \in 1..MaxTasks : cancel_task(tid)) /\ UNCHANGED <<rdVars>> /\ TMFrame
TakeRd == (\E w \in Workers : WorkerTake(w)) /\ UNCHANGED <<rdVars>> /\ TMFrame
DiscardRd == (\E w \in Workers : WorkerDiscard(w)) /\ UNCHANGED <<rdVars>> /\ TMFrame
BeginRd == ~LockHeld /\ (\E w \in Workers : WorkerBegin(w)) /\ UNCHANGED <<rdVars>> /\ TMFrame
RunUnitRd == (\E w \in Workers : WorkerRunUnit(w)) /\ UNCHANGED <<rdVars>> /\ TMFrame
CompletedStatusRd == (\E w \in Workers : WriteCompletedStatus(w)) /\ UNCHANGED <<rdVars>> /\ TMFrame
ResultRd == (\E w \in Workers : WriteResult(w)) /\ UNCHANGED <<rdVars>> /\ TMFrame
ProgressRd == (\E w \in Workers : WriteProgress(w)) /\ UNCHANGED <<rdVars>> /\ TMFrame
CompletedAtRd == (\E w \in Workers : WriteCompletedAt(w)) /\ UNCHANGED <<rdVars>> /\ TMFrame
FailedStatusRd == (\E w \in Workers : WriteFailedStatus(w)) /\ UNCHANGED <<rdVars>> /\ TMFrame
ErrorRd == (\E w \in Workers : WriteError(w)) /\ UNCHANGED <<rdVars>> /\ TMFrame
FailedAtRd == (\E w \in Workers : WriteFailedAt(w)) /\ UNCHANGED <<rdVars>> /\ TMFrame
GetRd == (\E tid \in Tokens : ReaderGet(tid)) /\ UNCHANGED <<tmVars, accepting>> /\ TMFrame
ReadStatusRd == ReaderReadStatus /\ UNCHANGED <<tmVars, accepting>> /\ TMFrame
ReadFieldsRd == ReaderReadFields /\ UNCHANGED <<tmVars, accepting>> /\ TMFrame
DropRd == ReaderDrop /\ UNCHANGED <<tmVars, accepting>> /\ TMFrame

NextTMRead ==
    \/ SubmitRd
    \/ CancelRd
    \/ TakeRd
    \/ DiscardRd
    \/ BeginRd
    \/ RunUnitRd
    \/ CompletedStatusRd
    \/ ResultRd
    \/ ProgressRd
    \/ CompletedAtRd
    \/ FailedStatusRd
    \/ ErrorRd
    \/ FailedAtRd
    \/ GetRd
    \/ ReadStatusRd
    \/ ReadFieldsRd
    \/ DropRd

SpecTMRead == InitTM /\ [][NextTMRead]_vars

\* between locked sections every stored record is whole
StoredRecordsWhole ==
    ~LockHeld =>
        \A tid \in DOMAIN tasks :
            /\ tasks[tid].status = COMPLETED =>
                  /\ tasks[tid].result = "value"
                  /\ tasks[tid].progress = 100
                  /\ tasks[tid].completed_at # NoTime
            /\ tasks[tid].status = FAILED =>
                  /\ tasks[tid].error # None
                  /\ tasks[tid].completed_at # NoTime

(***************************************************************************)
(* C24: a caller that got a record from get_task_status (or get_all_tasks) *)
(* and observes status completed also observes the result, progress 100    *)
(* and completed_at of that completion, and one that observes status       *)
(* failed also observes the error, under any interleaving with the worker  *)
(* that executes the task.                                                 *)
(***************************************************************************)
C24_ReadsAreConsistent ==
    reader.pc = "read" =>
        /\ reader.status = COMPLETED =>
              /\ reader.result = "value"
              /\ reader.progress = 100
              /\ reader.completed_at # NoTime
        /\ reader.status = FAILED => reader.error # None

(***************************************************************************)
(* The pipeline over a store whose commits may fail and a filesystem whose *)
(* removals may fail.                                                      *)
(***************************************************************************)
InitPipelineFaults ==
    /\ now = 0
    /\ InitTaskManager
    /\ InitExportManager
    /\ InitAccounts
    /\ sessions = [s \in SessionIds |-> NewSession]
    /\ slides = {}
    /\ audioFiles = {}
    /\ faults = TRUE

SpecPipelineFaults == InitPipelineFaults /\ [][NextPipeline]_vars

\* tid is the last attempt submitted for its session
LatestAttempt(tid) ==
    /\ tid \in DOMAIN tasks
    /\ work[tid].func = "process_lecture"
    /\ \A t2 \in DOMAIN tasks : t2 > tid => work[t2].session # work[tid].session

(***************************************************************************)
(* C25: at the end of an attempt the task record and the session row       *)
(* agree: when the record of the session's latest process_lecture task is  *)
(* completed the row is "completed", when it is failed by the pipeline the *)
(* row is "failed"; the row is terminal no later than the record, and no   *)
(* row is "processing" once its task is terminal, also when a status write *)
(* to the store fails.                                                     *)
(***************************************************************************)
C25_TaskAndSessionAgree ==
    \A tid \in Tokens :
        (LatestAttempt(tid) /\ work[tid].session \in DOMAIN sessions) =>
            LET row == sessions[work[tid].session] IN
            /\ tasks[tid].status = COMPLETED => row.processing_status = "completed"
            /\ tasks[tid].status = FAILED => row.processing_status = "failed"
            /\ tasks[tid].status \in Terminal => row.processing_status # "processing"

(***************************************************************************)
(* The operations that write task records: submit_task, cancel_task,       *)
(* update_task_progress, cleanup_completed_tasks and the workers.          *)
(***************************************************************************)
NextTMWriters ==
    \/ NextTMCore
    \/ UpdateProgress

SpecTMWriters == InitTM /\ [][NextTMWriters]_vars

(***************************************************************************)
(* C26: under every interleaving of submit_task, cancel_task,              *)
(* update_task_progress, cleanup_completed_tasks and the workers, a        *)
(* record's status moves only pending -> processing -> {completed, failed} *)
(* or pending -> failed (cancel); a completed or failed record never       *)
(* changes status again; and completed_at is set exactly when the status   *)
(* is terminal.                                                            *)
(***************************************************************************)
TaskStatusMove(old, new) ==
    \/ old.status = PENDING /\ new.status = PROCESSING
    \/ old.status = PROCESSING /\ new.status \in Terminal
    \/ /\ old.status = PENDING /\ new.status = FAILED
       /\ new.error = "Task cancelled"

TaskStatusMovesAlongTheMachine ==
    \A tid \in DOMAIN tasks :
        /\ tid \in DOMAIN tasks' =>
              \/ tasks'[tid].status = tasks[tid].status
              \/ TaskStatusMove(tasks[tid], tasks'[tid])
        /\ tid \notin DOMAIN tasks' => tasks[tid].status \in Terminal

NewRecordsArePending ==
    \A tid \in DOMAIN tasks' \ DOMAIN tasks : tasks'[tid].status = PENDING

CompletedAtIffTerminal ==
    \A tid \in DOMAIN tasks :
        tasks[tid].completed_at # NoTime <=> tasks[tid].status \in Terminal

C26_TaskStatusMachine ==
    /\ []CompletedAtIffTerminal
    /\ [][TaskStatusMovesAlongTheMachine /\ NewRecordsArePending]_vars

\* one record was cancelled while pending, another went through processing
\* to completed and had its progress annotated afterwards
C26_Witness ==
    \E t1, t2 \in DOMAIN tasks :
        /\ tasks[t1].status = FAILED /\ tasks[t1].error = "Task cancelled"
        /\ tasks[t1].started_at = NoTime
        /\ tasks[t2].status = COMPLETED /\ tasks[t2].started_at # NoTime
        /\ tasks[t2].progress = HalfWay

(***************************************************************************)
(* C27: when the slide persistence stage fails part-way (the delete, an    *)
(* insert or the commit raises) the transaction is rolled back: the        *)
(* session's slides are exactly what they were before the attempt, no old  *)
(* slide is lost and no new one added, through the rest of the attempt,    *)
(* and the attempt ends with the session "failed".                         *)
(***************************************************************************)
PersistenceFailed(w) ==
    /\ workers[w].tid \in Tokens
    /\ workers[w].err = "Failed to save slides"

FailedPersistenceKeepsSlides ==
    \A w \in Workers :
        (\/ PersistenceFailed(w)
         \/ AtStage(w, "save_slides") /\ workers'[w].err = "Failed to save slides")
            => {r \in slides' : r.session_id = SessionOf(w)} = SlidesOf(SessionOf(w))

EndedInFailedPersistence(tid) ==
    /\ LatestAttempt(tid)
    /\ tasks[tid].status = FAILED
    /\ tasks[tid].error = "Processing failed: Failed to save slides"

FailedPersistenceLeavesNoTrace ==
    \A tid \in Tokens :
        EndedInFailedPersistence(tid) =>
            /\ sessions[work[tid].session].processing_status = "failed"
            /\ \A r \in SlidesOf(work[tid].session) : r.content.attempt # tid

C27_FailedPersistenceRollsBack ==
    /\ []FailedPersistenceLeavesNoTrace
    /\ [][FailedPersistenceKeepsSlides]_vars

\* a reprocessing attempt failed in the persistence stage; the session is
\* failed and still has the deck of the earlier attempt
C27_Witness ==
    \E tid \in Tokens :
        /\ EndedInFailedPersistence(tid)
        /\ sessions[work[tid].session].processing_status = "failed"
        /\ SlidesOf(work[tid].session) # {}
        /\ \A r \in SlidesOf(work[tid].session) : r.content.attempt < tid

(***************************************************************************)
(* The export pipeline with the token registry of ExportTaskManager:       *)
(* submit_export_task stores the future of the work item under a fresh     *)
(* token, get_task_status looks at that future.                            *)
(***************************************************************************)
\* lines 40-48: the entry stored for a new token
ActiveTask(j) == [export_job_id |-> j, started_at |-> now]

\* future.done(): the work item is neither queued nor being run
ExportFutureDone(t) ==
    /\ \A i \in 1..Len(exTaskQueue) : exTaskQueue[i] # t
    /\ \A w \in ExportWorkers : exTaskOf[w] # t

\* future.exception(): _process_export_job catches every exception of the
\* export and commits "failed"; with a store that accepts the commit the
\* work item returns normally
ExportFutureException(t) == None

\* ExportTaskManager.get_task_status(task_id)
export_get_task_status(t) ==
    /\ IF t \notin DOMAIN active_tasks
          THEN /\ exRet' = [op |-> "get_task_status", arg |-> t, val |-> "not_found"]
               /\ UNCHANGED active_tasks
          ELSE IF ExportFutureDone(t)
              THEN /\ active_tasks' = [x \in DOMAIN active_tasks \ {t} |-> active_tasks[x]]
                   /\ exRet' = [op |-> "get_task_status", arg |-> t,
                                val |-> IF ExportFutureException(t) # None
                                           THEN "failed" ELSE "completed"]
              ELSE /\ exRet' = [op |-> "get_task_status", arg |-> t, val |-> "processing"]
                   /\ UNCHANGED active_tasks
    /\ UNCHANGED <<jobs, exportFiles, exQueue, exWorkers, exSubmits, nextPath,
                   exTaskQueue, exTaskOf>>

ExportFrame == UNCHANGED <<now, tmVars, plVars, faults, rdVars, guVars>>

SubmitExportToken ==
    /\ \E j \in JobIds :
        /\ submit_export_task(j)
        /\ active_tasks' = active_tasks @@ ((exSubmits + 1) :> ActiveTask(j))
    /\ exTaskQueue' = Append(exTaskQueue, exSubmits + 1)
    /\ UNCHANGED <<exTaskOf, exRet>>
    /\ ExportFrame

StartExportToken ==
    /\ \E w \in ExportWorkers :
        /\ ExStart(w)
        /\ exTaskOf' = IF Head(exQueue) \in DOMAIN jobs
                          THEN [exTaskOf EXCEPT ![w] = Head(exTaskQueue)]
                          ELSE exTaskOf
    /\ exTaskQueue' = Tail(exTaskQueue)
    /\ UNCHANGED <<active_tasks, exRet>>
    /\ ExportFrame

RenderExportToken ==
    /\ \E w \in ExportWorkers : ExRender(w)
    /\ UNCHANGED tkVars
    /\ ExportFrame

CommitCompletedToken ==
    /\ \E w \in ExportWorkers :
        /\ ExCommitCompleted(w)
        /\ exTaskOf' = [exTaskOf EXCEPT ![w] = 0]
    /\ UNCHANGED <<active_tasks, exTaskQueue, exRet>>
    /\ ExportFrame

CommitFailedToken ==
    /\ \E w \in ExportWorkers :
        /\ ExCommitFailed(w)
        /\ exTaskOf' = [exTaskOf EXCEPT ![w] = 0]
    /\ UNCHANGED <<active_tasks, exTaskQueue, exRet>>
    /\ ExportFrame

PollExportToken ==
    /\ \E t \in 1..MaxExportSubmits : export_get_task_status(t)
    /\ ExportFrame

NextExportTokens ==
    \/ CreateJob
    \/ SubmitExportToken
    \/ StartExportToken
    \/ RenderExportToken
    \/ CommitCompletedToken
    \/ CommitFailedToken
    \/ PollExportToken

SpecExportTokens == InitExport /\ [][NextExportTokens]_vars

\* while the work item of a token is queued or running the answer is
\* "processing"
UnfinishedTokenIsProcessing ==
    [][\A t \in DOMAIN active_tasks :
          (export_get_task_status(t) /\ ~ExportFutureDone(t))
              => exRet'.val = "processing"]_vars

\* the job of token t is at rest in a terminal status: t's work item is
\* finished and no other work item for the job is queued or running
JobEndedFor(t) ==
    /\ t \in DOMAIN active_tasks
    /\ ExportFutureDone(t)
    /\ active_tasks[t].export_job_id \in DOMAIN jobs
    /\ jobs[active_tasks[t].export_job_id].status \in {"completed", "failed"}

\* the first answer for a finished token is the job row's terminal status
FinishedTokenMatchesJob ==
    [][\A t \in 1..MaxExportSubmits :
          (export_get_task_status(t) /\ JobEndedFor(t))
              => exRet'.val = jobs[active_tasks[t].export_job_id].status]_vars

(***************************************************************************)
(* C28: the answer of ExportTaskManager.get_task_status for a token whose  *)
(* work item has finished is "failed" exactly when the job row ended in    *)
(* "failed" and "completed" exactly when it ended in "completed"; it is    *)
(* "processing" while the worker has not finished; and a repeated call for *)
(* the same finished token returns the same terminal answer.               *)
(***************************************************************************)
C28_TokenReflectsOutcome ==
    [][\A t \in 1..MaxExportSubmits :
          export_get_task_status(t) =>
              /\ JobEndedFor(t) =>
                    exRet'.val = jobs[active_tasks[t].export_job_id].status
              /\ (t \in DOMAIN active_tasks /\ ~ExportFutureDone(t))
                    => exRet'.val = "processing"
              /\ (exRet.arg = t /\ exRet.val \in {"completed", "failed"})
                    => exRet'.val = exRet.val]_vars

(***************************************************************************)
(* The TaskManager with shutdown: after executor.shutdown() the executor   *)
(* raises RuntimeError from submit(); work items already queued still run. *)
(***************************************************************************)
\* shutdown(wait): self.executor.shutdown(wait=wait)
shutdown ==
    /\ accepting
    /\ accepting' = FALSE
    /\ UNCHANGED <<reader, tmVars>>

\* submit_task on an executor that rejects the work item: the record is
\* stored (line 77), executor.submit raises (line 80), line 81 is not
\* reached and the exception leaves the locked section
submit_task_rejected(func, session, path) ==
    /\ ~accepting
    /\ nextToken <= MaxTasks
    /\ tasks' = tasks @@ (nextToken :> TaskInfo(nextToken))
    /\ nextToken' = nextToken + 1
    /\ ret' = [op |-> "submit_task", tid |-> nextToken, val |-> "RuntimeError"]
    /\ UNCHANGED <<futures, fstate, work, queue, workers, dequeued, executed,
                   cancelOK>>

SubmitSd ==
    /\ \/ accepting /\ submit_task("unit", 0, 0)
       \/ submit_task_rejected("unit", 0, 0)
    /\ UNCHANGED <<rdVars>>
    /\ TMFrame

ShutdownSd == shutdown /\ TMFrame

NextTMShutdown ==
    \/ SubmitSd
    \/ ShutdownSd
    \/ Cancel
    \/ Cleanup
    \/ Take
    \/ Discard
    \/ Begin
    \/ RunUnit
    \/ Complete
    \/ Fail
    \/ ClockTM

SpecTMShutdown == InitTM /\ [][NextTMShutdown]_vars

\* while the executor accepts work the two maps have the same keys
SameKeysWhileAccepting == accepting => DOMAIN tasks = futures

(***************************************************************************)
(* C29: outside the locked sections the tasks map and the futures map of a *)
(* TaskManager have the same key set, and a submit_task call that fails    *)
(* (the executor rejects the work, e.g. after shutdown) leaves no record:  *)
(* no record is pending without a future that will run or can be           *)
(* cancelled.                                                              *)
(***************************************************************************)
C29_TasksAndFuturesAgree ==
    /\ DOMAIN tasks = futures
    /\ \A tid \in DOMAIN tasks :
          tasks[tid].status = PENDING =>
              /\ tid \in futures
              /\ fstate[tid] \in {"PENDING", "RUNNING"}

(***************************************************************************)
(* The pipeline together with the request path's delete_lecture_session.   *)
(***************************************************************************)
\* delete_lecture_session(session_id) for an existing row, one commit: the
\* session's export jobs, the session and (by the ORM cascade) the slides
\* it has at that moment
delete_lecture_session(s) ==
    /\ s \in DOMAIN sessions
    /\ sessions' = [x \in DOMAIN sessions \ {s} |-> sessions[x]]
    /\ slides' = {r \in slides : r.session_id # s}
    /\ jobs' = [j \in {k \in DOMAIN jobs : jobs[k].session_id # s} |-> jobs[j]]

DeleteSession ==
    /\ \E s \in SessionIds : delete_lecture_session(s)
    /\ UNCHANGED <<now, tmVars, audioFiles, writes, faults, moreVars,
                   exportFiles, exQueue, exWorkers, exSubmits, nextPath>>

\* the upload handler submits an attempt for a session row that exists
SubmitProcessingExisting ==
    /\ \E s \in DOMAIN sessions :
        /\ ~InFlight(s)
        /\ submit_processing_task(s, nextToken)
    /\ \E present \in BOOLEAN :
        audioFiles' = IF present THEN audioFiles \cup {nextToken} ELSE audioFiles
    /\ UNCHANGED <<now, sessions, slides, writes, faults, moreVars, exVars>>

NextPipelineDelete ==
    \/ SubmitProcessingExisting
    \/ DeleteSession
    \/ TakePL
    \/ BeginPL
    \/ SetProcessing
    \/ Transcribe
    \/ SaveTranscript
    \/ Generate
    \/ SaveSlidesStep
    \/ SetCompleted
    \/ CleanupAudio
    \/ SetFailed
    \/ CleanupAudioFailed
    \/ CompletePL
    \/ FailPL

SpecPipelineDelete == InitPipeline /\ [][NextPipelineDelete]_vars

\* a status or transcript write for a missing row creates no row
DeletedSessionStaysDeleted ==
    [][\A s \in SessionIds : s \notin DOMAIN sessions => s \notin DOMAIN sessions']_vars

(***************************************************************************)
(* C30: under every interleaving of a running process_lecture attempt with *)
(* delete_lecture_session for the same session, no slide row exists for a  *)
(* session that has no row: an attempt whose session is missing or was     *)
(* deleted mid-flight persists no slides for it.                           *)
(***************************************************************************)
C30_NoSlidesWithoutSession ==
    \A r \in slides : r.session_id \in DOMAIN sessions

====
